---- MODULE Spec2Model ----
(***************************************************************************)
(* The guess-ai engine (src/guess-ai/src/engine.rs) together with the      *)
(* confidential channel it calls (src/secret-guessing/src/atoma.rs), the    *)
(* secret generation (generate_secret.rs) and the ledger client             *)
(* (client.rs).  The engine is a single task: its position is pc, and every *)
(* await point of the code is a value of pc.  The ledger, the compute node  *)
(* and the shutdown sender are the environment.                             *)
(***************************************************************************)
EXTENDS Integers, Sequences, FiniteSets, TLC

VARIABLES
    log,            \* the ledger's event log of the guess_ai module, oldest first
    registeredKey,  \* public key last accepted by resubmit_tdx_attestation (0: none)
    cursorFile,     \* content of the cursor file (FileNotFound, EmptyFile or a position)
    shutdown,       \* value of the shutdown watch channel
    changed,        \* the engine's receiver has not yet seen the latest value
    pc,             \* position of the engine task
    cursor,         \* run(): `cursor`, None or the id of the last event received
    pageBase,       \* run(): position in log before the first event of `data`
    pageLen,        \* run(): number of events of `data`
    idx,            \* run(): 1-based index in `data` of the event being visited
    hasNext,        \* run(): `has_next_page` of the page being drained
    secret,         \* GuessAiEngine::secret
    clientKey,      \* GuessAiEngine::client_private_key
    randomSeed,     \* GuessAiEngine::random_seed
    newKey,         \* local `client_private_key` of new() / handle_rotate_tdx_quote_event
    newSeed,        \* local `random_seed` of new() / handle_rotate_tdx_quote_event
    exitReason,     \* why the engine task ended ("" while it runs)
    nextId,         \* source of fresh key and secret identities
    dispatched,     \* history: log positions visited by the for loop, in order
    active,         \* history: handlers entered and not yet left
    inflight,       \* history: confidential calls issued and not yet returned
    lastReq,        \* history: the last request handed to confidential_chat_completions
    installed,      \* history: epoch produced by the last successful generate_new_secret
    handler,        \* history: what the handler of the event being visited has done
    chain,          \* history: pages, file writes and sleeps since the last backoff
    signalAt,       \* history (kept by SpecLive): where the engine was when the signal was sent
    dropped,        \* history: the fetch the select! dropped when it took the shutdown
                    \* branch: "pending" (in flight when the signal came), "issued"
                    \* (polled in the same select!), "none"
    vResponse,      \* a response handed to verify_response_hash_and_signature
    vResult,        \* what the verification returned for it ("unchecked" before)
    box,            \* the inputs and the output of an encrypt / decrypt round trip
    store,          \* a cursor file under put and get on its own
    chan,           \* one confidential_chat_completions call, step by step
    net,            \* the node directory and what the channel has put on the wire
    proc,           \* main(): the ctrl-c task, the engine's task and the exit of main
    past,           \* what the earlier runs of the process have left behind
    admin,          \* the admin server: its lock, its requests, what they executed
    closed          \* every Sender of the shutdown channel has been dropped

vars == <<log, registeredKey, cursorFile, shutdown, changed, pc, cursor, pageBase,
          pageLen, idx, hasNext, secret, clientKey, randomSeed, newKey, newSeed,
          exitReason, nextId,
          dispatched, active, inflight, lastReq, installed, handler, chain, signalAt, dropped, vResponse, vResult, box, store,
  chan, net, proc, past, admin, closed>>

(***************************************************************************)
(* Bounds and configuration                                                *)
(***************************************************************************)
MaxLog == 3
PageLimit == 2
HintWaitCount == 50

None == 0
FileNotFound == -1
\* the cursor file exists and holds no position: File::create has truncated it and
\* nothing, or a part of the text that does not parse, was written
EmptyFile == -2

Min(a, b) == IF a < b THEN a ELSE b

(***************************************************************************)
(* u64 values.  A u64 is kept as its top bit and the remaining 63 bits, so  *)
(* that the conversion to i64 made by serde is exact.                       *)
(***************************************************************************)
U64(top, rest) == [top |-> top, rest |-> rest]

\* serde_json deserializing a non-negative JSON number into Option<i64>
FitsI64(u) == u.top = 0

\* the seed of a request that was built: the i64 is the number the u64 was
SeedSent(u) == U64(0, u.rest)

(***************************************************************************)
(* Events of the ledger (engine.rs, mod events)                            *)
(***************************************************************************)
Event(name, json_ok, guess_count, sender, random_seed) ==
    [name |-> name, json_ok |-> json_ok, guess_count |-> guess_count,
     sender |-> sender, random_seed |-> random_seed]

\* the (guess_count, sender) pairs of the NewGuess events on the ledger
Guesses == {<<5, 2>>, <<50, 1>>}
EventSeeds == {U64(0, 42), U64(1, 42)}
BootSeeds == {U64(0, 7), U64(1, 7)}
NoSeed == U64(0, 0)

Events ==
    {Event("PublishEvent", TRUE, 0, 0, NoSeed),
     Event("TDXQuoteResubmittedEvent", TRUE, 0, 0, NoSeed),
     Event("TransferEvent", TRUE, 0, 0, NoSeed),
     Event("NewGuessEvent", FALSE, 0, 1, NoSeed)}
    \cup {Event("NewGuessEvent", TRUE, g[1], g[2], NoSeed) : g \in Guesses}
    \cup {Event("RotateTdxQuoteEvent", TRUE, 0, 0, sd) : sd \in EventSeeds}

\* GuessAiEventIdentifier::from_str: Ok for the four known names
from_str(name) ==
    name \in {"PublishEvent", "NewGuessEvent", "RotateTdxQuoteEvent",
              "TDXQuoteResubmittedEvent"}

\* events::parse_event: serde_json::from_value of the event's parsed_json
parse_event(ev) == ev.json_ok

(***************************************************************************)
(* Ledger Client: query_events(filter, cursor, limit, descending = false)  *)
(* The page holds the events after `cur`, at most `limit` of them.          *)
(***************************************************************************)
PageBase(cur) == cur

PageSize(events, cur, limit) == Min(Len(events) - PageBase(cur), limit)

HasNextPage(events, cur, limit) == Len(events) - PageBase(cur) > limit

NextCursor(events, cur, limit) ==
    IF PageSize(events, cur, limit) > 0
    THEN PageBase(cur) + PageSize(events, cur, limit)
    ELSE cur

\* variant of CursorAfterPage: the cursor is left where it was
CursorNotAdvanced(cur, next_cursor) == cur

\* variant of CursorAfterPage: a page that brings no progress resets the cursor
CursorDroppedOnEmptyPage(cur, next_cursor) ==
    IF next_cursor = cur THEN None ELSE next_cursor

\* run(): `cursor = next_cursor;` on an Ok page
CursorAfterPage(cur, next_cursor) == next_cursor

\* variant of CursorAfterError: a failed fetch resets the cursor
CursorLostOnError(cur) == None

\* run(): the Err arm of `match page` assigns nothing before `continue`
CursorAfterError(cur) == cur

\* run(): the log position of the idx-th event of `data`
EventAt(base, i) == base + i

\* variant of ShouldCheckpoint: the checkpoint is taken after every page
CheckpointEveryPage(has_next_page) == TRUE

\* run(): `if !has_next_page` guards the checkpoint and the backoff sleep
ShouldCheckpoint(has_next_page) == ~has_next_page

(***************************************************************************)
(* Cursor file (engine.rs, mod cursor)                                     *)
(***************************************************************************)
\* variant of read_cursor_from_toml_file: the content of the file is not used
ResumeFromStart(file) == None

\* read_cursor_from_toml_file: whether it returns Ok; a text without both fields
\* makes toml::from_str fail
read_cursor_result(file) == file # EmptyFile

\* read_cursor_from_toml_file when it returns Ok: NotFound => None
read_cursor_from_toml_file(file) == IF file \in {FileNotFound, EmptyFile} THEN None ELSE file

\* variant of write_cursor_to_toml_file: the file is left as it is
WriteSkipped(cur, file, io) == file

\* how std::fs::write ends: Ok; an error of File::create (the file is as it was); an
\* error of write_all before the text can be read back (the file was created or
\* truncated and holds nothing or a part of the text); an error of write_all on the
\* final newline (the file holds the whole new position)
IoOutcomes == {"ok", "create_err", "write_err", "write_err_end"}

\* write_cursor_to_toml_file: the file after the call; a None cursor writes nothing
write_cursor_to_toml_file(cur, file, io) ==
    IF cur = None THEN file
    ELSE IF io \in {"ok", "write_err_end"} THEN cur
    ELSE IF io = "write_err" THEN EmptyFile
    ELSE file

\* variant of write_cursor_result: an error of std::fs::write is not returned
WriteErrorIgnored(cur, io) == TRUE

\* write_cursor_to_toml_file: the Result of the call
write_cursor_result(cur, io) == cur = None \/ io = "ok"

\* whether the call reaches std::fs::write
write_attempted(cur) == cur # None

(***************************************************************************)
(* Confidential channel (atoma.rs)                                         *)
(*                                                                         *)
(* A response of the compute endpoint, as the channel sees it:             *)
(*   transport     "ok", or the first step before decryption that fails:    *)
(*                 "http" (a GET or POST fails, is not 2xx, or its body is  *)
(*                 not the expected JSON), "b64" (a base64 field does not   *)
(*                 decode), "key_len" (the node key is not 32 bytes),       *)
(*                 "nonce_len" (the nonce is not 12 bytes), "hash_len"      *)
(*                 (the response hash is not 32 bytes)                      *)
(*   decrypt       "ok", "tag" (AES-GCM rejects the ciphertext) or "json"   *)
(*                 (the plaintext is no ChatCompletionResponse)             *)
(*   content       what choices[0].message.content holds                    *)
(*   response_hash the server-supplied hash (NoHash: absent)                *)
(*   sig_*         the server-supplied signature: present, parses as a Sui  *)
(*                 signature, its scheme flag, its embedded public key is   *)
(*                 well-formed, and the digest it is a valid signature of   *)
(***************************************************************************)
Contents == {"no_choice", "not_json", "guess_true", "guess_false", "secret", "hint"}

NoHash == -1

\* utils::blake2b_hash of the serialized response body (one digest per body)
blake2b_hash(content) ==
    CASE content = "no_choice" -> 0
      [] content = "not_json" -> 1
      [] content = "guess_true" -> 2
      [] content = "guess_false" -> 3
      [] content = "secret" -> 4
      [] OTHER -> 5

Digests == 0 .. 5

Schemes == {"ED25519", "Secp256k1", "Secp256r1", "BLS12381", "MultiSig"}

Response(transport, decrypt, content, response_hash, sig_present, sig_parse, sig_scheme, sig_pk_ok, sig_in_range, sig_signed) ==
    [transport |-> transport, decrypt |-> decrypt, content |-> content,
     response_hash |-> response_hash, sig_present |-> sig_present,
     sig_parse |-> sig_parse, sig_scheme |-> sig_scheme, sig_pk_ok |-> sig_pk_ok,
     sig_in_range |-> sig_in_range, sig_signed |-> sig_signed]


\* utils::verify_signature(base64_signature, body_hash): "ok", the error raised, or
\* "panic": Signature::from_str looks at the flag and the length only, and
\* Secp256k1Signature::from_bytes(..).unwrap() and Secp256r1Signature::from_bytes(..)
\* .unwrap() (atoma.rs:538, 548) panic on scalars that are out of range
\* (Ed25519Signature::from_bytes takes any 64 bytes; such a signature does not verify)
verify_signature(r, body_hash) ==
    IF ~r.sig_parse THEN "Failed to parse signature"
    ELSE IF ~r.sig_pk_ok THEN "Failed to extract public key from bytes"
    ELSE IF r.sig_scheme \notin {"ED25519", "Secp256k1", "Secp256r1"}
         THEN "Currently unsupported signature scheme"
    ELSE IF r.sig_scheme \in {"Secp256k1", "Secp256r1"} /\ ~r.sig_in_range THEN "panic"
    ELSE IF r.sig_signed # body_hash \/ ~r.sig_in_range THEN "Failed to verify signature"
    ELSE "ok"


\* utils::verify_response_hash_and_signature(response_body, response_hash, signature)
verify_response_hash_and_signature(r) ==
    IF r.response_hash = NoHash \/ ~r.sig_present
    THEN "Response hash or signature is missing"
    ELSE IF r.response_hash # blake2b_hash(r.content)
         THEN "Response hash does not match computed response hash"
    ELSE verify_signature(r, blake2b_hash(r.content))

\* AtomaSdk::confidential_chat_completions: "ok" (Ok(response_body)), the error, or
\* "panic": on a status that is neither 2xx nor 4xx/5xx (a 304, say) is_success() is
\* false and error_for_status() is Ok, so unwrap_err() panics (atoma.rs:122-125, 213-216)
confidential_chat_completions(r) ==
    IF r.transport = "status_other" THEN "panic"
    ELSE IF r.transport = "http" THEN "RequestNodePublicUrlError"
    ELSE IF r.transport = "b64" THEN "DecodeNodePublicKeyError"
    ELSE IF r.transport = "key_len" THEN "CreatePublicKeyError"
    ELSE IF r.transport = "nonce_len" THEN "InvalidNonceError"
    ELSE IF r.transport = "hash_len" THEN "InvalidPayloadHashLengthError"
    ELSE IF r.decrypt = "tag" THEN "DecryptResponseError"
    ELSE IF r.decrypt = "json" THEN "ParseResponseError"
    ELSE verify_response_hash_and_signature(r)

\* A response that passes every check, carrying `content`
GoodResponse(content) ==
    Response("ok", "ok", content, blake2b_hash(content), TRUE, TRUE, "ED25519", TRUE,
             TRUE, blake2b_hash(content))

\* The ways a response carrying `content` can fail exactly one check
BadResponses(content) ==
    LET g == GoodResponse(content) IN
    {[g EXCEPT !.transport = t] :
        t \in {"http", "status_other", "b64", "key_len", "nonce_len", "hash_len"}}
    \cup {[g EXCEPT !.decrypt = t] : t \in {"tag", "json"}}
    \cup
    {[g EXCEPT !.response_hash = NoHash],
     [g EXCEPT !.sig_present = FALSE],
     [g EXCEPT !.response_hash = (blake2b_hash(content) + 1) % 6,
               !.sig_signed = (blake2b_hash(content) + 1) % 6],
     [g EXCEPT !.sig_parse = FALSE],
     [g EXCEPT !.sig_pk_ok = FALSE],
     [g EXCEPT !.sig_scheme = "BLS12381"],
     [g EXCEPT !.sig_scheme = "Secp256k1", !.sig_in_range = FALSE],
     [g EXCEPT !.sig_in_range = FALSE],
     [g EXCEPT !.sig_signed = (blake2b_hash(content) + 1) % 6]}

\* What the compute node may answer to a call of the engine that expects `wanted`:
\* a verified response with the wanted content, with no choice or with other text,
\* or a response with the wanted content that fails one check
Responses(wanted) ==
    {GoodResponse(c) : c \in wanted \cup {"no_choice", "not_json"}}
    \cup UNION {BadResponses(c) : c \in wanted}

\* serde_json::from_str::<GuessPromptResponse>(content)
ParsesAsGuess(content) == content \in {"guess_true", "guess_false"}

\* serde_json::from_str::<SecretPromptResponse>(content)
ParsesAsSecret(content) == content = "secret"

\* serde_json::from_str::<HintPromptResponse>(content)
ParsesAsHint(content) == content = "hint"

\* `response_body.choices[0]` indexes out of bounds when there is no choice
HasChoice(content) == content # "no_choice"

\* variant of Winner: the withdrawal goes to one fixed address
PayoutToFixedAddress(ev) == 1

\* handle_new_guess_event: withdraw_funds_from_treasury_pool(sender, ..) pays the
\* sender of the event
Winner(ev) == ev.sender

\* handle_new_guess_event: `guess_count % self.config.hint_wait_count == 0`
HintDue(guess_count, hint_wait_count) == guess_count % hint_wait_count = 0

\* withdraw_funds_from_treasury_pool / submit_node_public_key: the transaction is
\* built (Err otherwise), then execute_transaction_must_succeed returns the response
\* ("ok") or panics: on the response of a failed transaction ("panic") and on an
\* error of the RPC itself ("rpc_err": the request did not reach the ledger, or the
\* answer was lost)
TxOutcomes == {"ok", "err", "panic", "rpc_err"}

\* what the call returns given what the ledger did with its transaction: Err when
\* none was sent (move_call failed), Ok once it was executed with success, a panic
\* once it was executed and failed, and a panic on an RPC error whatever the ledger
\* did (execute_transaction_must_succeed has no Result: it unwraps the RPC's)
TxReturns(outcome, tx) ==
    \/ outcome = "err" /\ tx = "none"
    \/ outcome = "ok" /\ tx = "ok"
    \/ outcome = "panic" /\ tx = "failed"
    \/ outcome = "rpc_err"

(***************************************************************************)
(* Encryption of the channel (atoma.rs, mod utils).  X25519 is modelled in *)
(* the multiplicative group modulo GroupPrime with generator GroupBase;    *)
(* HKDF and AES-GCM are modelled by what they bind: a derived key is the   *)
(* pair (salt, shared secret), a ciphertext opens only under the key and   *)
(* the nonce it was sealed with.                                           *)
(***************************************************************************)
GroupPrime == 23
GroupBase == 5

RECURSIVE Pow(_, _)
Pow(b, e) == IF e = 0 THEN 1 ELSE (b * Pow(b, e - 1)) % GroupPrime

\* PublicKey::from(&StaticSecret)
PublicKey(priv) == Pow(GroupBase, priv)

\* variant of diffie_hellman: the caller's own public key is used for the peer's
DhWithOwnPublicKey(priv, pub) == Pow(PublicKey(priv), priv)

\* StaticSecret::diffie_hellman(&PublicKey)
diffie_hellman(priv, pub) == Pow(pub, priv)

\* Hkdf::<Sha256>::new(Some(&salt), shared_secret).expand(b"", 32 bytes)
hkdf(salt, shared_secret) == [salt |-> salt, ikm |-> shared_secret]

DecryptError == "DecryptResponseError"

\* Aes256Gcm::encrypt(nonce, plaintext)
aes_encrypt(key, nonce, plaintext) == [key |-> key, nonce |-> nonce, plaintext |-> plaintext]

\* Aes256Gcm::decrypt(nonce, ciphertext): the tag verifies only under the sealing
\* key and nonce
aes_decrypt(key, nonce, ciphertext) ==
    IF ciphertext.key = key /\ ciphertext.nonce = nonce
    THEN ciphertext.plaintext
    ELSE DecryptError

\* utils::encrypt_chat_completions_request, atoma.rs:345-354: the key is derived from
\* the own private key, the peer's public key and the salt, and the bytes are sealed
seal(plaintext, private_key, public_key, nonce, salt) ==
    aes_encrypt(hkdf(salt, diffie_hellman(private_key, public_key)), nonce, plaintext)

\* utils::encrypt_chat_completions_request: the ConfidentialComputeRequest
encrypt_chat_completions_request(request, client_private_key, node_public_key, nonce, salt, stack_small_id) ==
    [nonce |-> nonce,
     salt |-> salt,
     client_dh_public_key |-> PublicKey(client_private_key),
     node_dh_public_key |-> node_public_key,
     stack_small_id |-> stack_small_id,
     ciphertext |-> seal(request, client_private_key, node_public_key, nonce, salt)]

\* utils::decrypt_chat_completions_response up to cipher.decrypt: the plaintext
decrypt_plaintext(ciphertext, private_key, public_key, nonce, salt) ==
    aes_decrypt(hkdf(salt, diffie_hellman(private_key, public_key)), nonce, ciphertext)

\* serde_json::from_slice::<ChatCompletionResponse>(plaintext): a request body lacks
\* the fields id, created, model and choices
IsResponseBody(plaintext) == plaintext \in Contents

\* variant of decrypt_chat_completions_response: the key is derived without the salt
DecryptWithoutSalt(ciphertext, client_private_key, node_public_key, nonce, salt) ==
    LET plaintext == decrypt_plaintext(ciphertext, client_private_key, node_public_key, nonce, 0) IN
    IF plaintext = DecryptError THEN DecryptError
    ELSE IF ~IsResponseBody(plaintext) THEN "ParseResponseError"
    ELSE plaintext

\* utils::decrypt_chat_completions_response: the response body or the error
decrypt_chat_completions_response(ciphertext, client_private_key, node_public_key, nonce, salt) ==
    LET plaintext == decrypt_plaintext(ciphertext, client_private_key, node_public_key, nonce, salt) IN
    IF plaintext = DecryptError THEN DecryptError
    ELSE IF ~IsResponseBody(plaintext) THEN "ParseResponseError"
    ELSE plaintext

NoBox == [a |-> 0, b |-> 0, nonce |-> 0, salt |-> 0, plaintext |-> "", out |-> "none"]
(***************************************************************************)
(* The cursor file as text (engine.rs, mod cursor).  An EventID is written *)
(* as a TOML document of two string values: the digest and the sequence    *)
(* number in decimal.                                                      *)
(***************************************************************************)
\* Option<EventID>
SomeCursor(tx_digest, event_seq) == [some |-> TRUE, tx_digest |-> tx_digest, event_seq |-> event_seq]
NoCursor == [some |-> FALSE, tx_digest |-> 0, event_seq |-> 0]

RECURSIVE ToDecimal(_)
\* u64 to its decimal digits (Display)
ToDecimal(n) == IF n < 10 THEN <<n>> ELSE Append(ToDecimal(n \div 10), n % 10)

RECURSIVE FromDecimal(_)
\* decimal digits to u64 (FromStr), most significant first
FromDecimal(digits) ==
    IF Len(digits) = 0 THEN 0
    ELSE 10 * FromDecimal(SubSeq(digits, 1, Len(digits) - 1)) + digits[Len(digits)]

\* variant of toml_to_string: the digest line is not written
TomlWithoutDigest(c) == <<[key |-> "event_seq", digest |-> 0, digits |-> ToDecimal(c.event_seq)]>>

\* toml::to_string(&EventID): one line per field
toml_to_string(c) ==
    <<[key |-> "tx_digest", digest |-> c.tx_digest, digits |-> <<>>],
      [key |-> "event_seq", digest |-> 0, digits |-> ToDecimal(c.event_seq)]>>

\* the lines of a text that set `key`
LinesOf(text, key) == {i \in 1 .. Len(text) : text[i].key = key}

\* toml::from_str::<EventID>(text): no key is set twice, both fields are there, in
\* any order, and the sequence number has digits; other keys are ignored
toml_from_str(text) ==
    LET d == LinesOf(text, "tx_digest")
        s == LinesOf(text, "event_seq")
    IN IF /\ \A i, j \in 1 .. Len(text) : text[i].key = text[j].key => i = j
          /\ Cardinality(d) = 1
          /\ Cardinality(s) = 1
          /\ Len(text[CHOOSE i \in s : TRUE].digits) > 0
       THEN [status |-> "ok",
             value |-> SomeCursor(text[CHOOSE i \in d : TRUE].digest,
                                  FromDecimal(text[CHOOSE i \in s : TRUE].digits))]
       ELSE [status |-> "TomlError", value |-> NoCursor]

\* a file of the file system
AbsentFile == [exists |-> FALSE, text |-> <<>>]
FileWith(text) == [exists |-> TRUE, text |-> text]

\* cursor::read_cursor_from_toml_file on the text of the file
read_cursor_text(file) ==
    IF ~file.exists THEN [status |-> "ok", value |-> NoCursor]
    ELSE toml_from_str(file.text)

\* std::fs::write: File::create truncates the file, write_all puts the text
fs_create(file) == FileWith(<<>>)
fs_write_all(file, text) == FileWith(text)

NotRead == [status |-> "none", value |-> NoCursor]

\* the file, what it held before the put, the cursor put, how far the put and the
\* get have come, whether the process was killed during the put, what get returned
NoStore ==
    [file |-> AbsentFile, before |-> AbsentFile, put |-> NoCursor, phase |-> "idle",
     crashed |-> FALSE, got |-> NotRead]
\* const PUBLIC_KEY_SIZE (atoma.rs:23)
PUBLIC_KEY_SIZE == 32

\* What the directory endpoint answers to GET /v1/nodes/models/{model}: how the
\* exchange went, whether public_key is base64, its decoded length, the key, the stack
DirectoryAnswer(wire, b64_ok, key_len, node) ==
    [wire |-> wire, b64_ok |-> b64_ok, key_len |-> key_len,
     public_key |-> PublicKey(node.priv), stack_small_id |-> node.stack]

DirectoryAnswers(node) ==
    {DirectoryAnswer(w, b, l, node) :
        w \in {"ok", "send_err", "status_err", "status_other", "json_err"}, b \in BOOLEAN,
        l \in {PUBLIC_KEY_SIZE - 1, PUBLIC_KEY_SIZE, PUBLIC_KEY_SIZE + 1}}

\* AtomaSdk::request_node_public_url: "ok" (Ok(entry)), the error (a reqwest::Error of
\* send or json converts into RequestNodePublicUrlError; so does the one of a 4xx or
\* 5xx status), or "panic": unwrap_err() on a status that is not 2xx, 4xx or 5xx
request_node_public_url(d) ==
    IF d.wire = "status_other" THEN "panic"
    ELSE IF d.wire \in {"send_err", "status_err", "json_err"} THEN "RequestNodePublicUrlError"
    ELSE "ok"

\* confidential_chat_completions: STANDARD.decode(public_key)?, then try_into
\* [u8; PUBLIC_KEY_SIZE]
node_public_key_bytes(d) ==
    IF ~d.b64_ok THEN "DecodeNodePublicKeyError"
    ELSE IF d.key_len # PUBLIC_KEY_SIZE THEN "CreatePublicKeyError"
    ELSE "ok"

\* variant of EntryForCall: an entry kept from an earlier call is used when there is one
EntryFromCache(fetched, cached) == IF cached.public_key = 0 THEN fetched ELSE cached

\* confidential_chat_completions: the directory entry the envelope is built from is
\* the one the call's own request_node_public_url returned
EntryForCall(fetched, cached) == fetched

\* What the compute endpoint answers to the POST: how the exchange went, the nonce
\* field, the ciphertext, and the hash and signature fields (as in Response)
ComputeAnswer(wire, nonce, ciphertext, fields) ==
    [wire |-> wire, nonce |-> nonce, ciphertext |-> ciphertext, fields |-> fields]

\* confidential_chat_completions after the POST: "ok" (Ok(response_body)), the error,
\* or "panic" (unwrap_err() on a status that is not 2xx, 4xx or 5xx)
compute_result(a, client_private_key, node_public_key, salt) ==
    IF a.wire = "status_other" THEN "panic"
    ELSE IF a.wire \in {"send_err", "status_err", "json_err"} THEN "RequestNodePublicUrlError"
    ELSE IF a.wire = "b64_err" THEN "DecodeNodePublicKeyError"
    ELSE IF a.wire = "nonce_len" THEN "InvalidNonceError"
    ELSE IF a.wire = "hash_len" THEN "InvalidPayloadHashLengthError"
    ELSE LET body == decrypt_chat_completions_response(a.ciphertext, client_private_key,
                                                       node_public_key, a.nonce, salt) IN
         IF body \in {DecryptError, "ParseResponseError"} THEN body
         ELSE verify_response_hash_and_signature([a.fields EXCEPT !.content = body])

NoEntry == [wire |-> "none", b64_ok |-> FALSE, key_len |-> 0, public_key |-> 0, stack_small_id |-> 0]
NoCiphertext == aes_encrypt(hkdf(0, 0), 0, "")
NoFields == [GoodResponse("no_choice") EXCEPT !.transport = "http"]
NoAnswer == ComputeAnswer("none", 0, NoCiphertext, NoFields)
NoEnvelope == [nonce |-> 0, salt |-> 0, client_dh_public_key |-> 0, node_dh_public_key |-> 0, stack_small_id |-> 0, ciphertext |-> NoCiphertext]

\* one call: where it is, the caller's key, the GETs and POSTs it has issued, what it
\* fetched, its nonce and salt, the envelope it sent, the answer it got, its result
NoCall ==
    [pc |-> "idle", key |-> 0, lookups |-> 0, posts |-> 0, entry |-> NoEntry,
     nonce |-> 0, salt |-> 0, envelope |-> NoEnvelope, answer |-> NoAnswer,
     result |-> "none"]

\* the node behind the directory, the calls made, the random values drawn, the entry
\* of the previous call, and the (key, salt, nonce) triples messages were sealed or
\* opened under
NoNet ==
    [node |-> [priv |-> 0, stack |-> 0], calls |-> 0, rand |-> 0, cached |-> NoEntry,
     used |-> <<>>]

(***************************************************************************)
(* The engine's epoch: the three fields rotation replaces                  *)
(***************************************************************************)
Epoch(key, seed, sec) == [key |-> key, seed |-> seed, secret |-> sec]

CurrentEpoch == Epoch(clientKey, randomSeed, secret)

\* variant of EpochAfterRotation: the secret field is not replaced
RotationKeepsOldSecret(generated, old, new) ==
    IF generated THEN [new EXCEPT !.secret = old.secret] ELSE old

\* variant of EpochAfterRotation: the key is assigned before the secret is generated
RotationAssignsKeyEarly(generated, old, new) ==
    IF generated THEN new ELSE [old EXCEPT !.key = new.key]

\* variant of EpochAfterRotation: the seed of the event is kept when generation fails
RotationKeepsFailedSeed(generated, old, new) ==
    IF generated THEN new ELSE [old EXCEPT !.seed = new.seed]

\* handle_rotate_tdx_quote_event: the fields after the handler, which assigns the
\* three of them only after generate_new_secret returned Ok
EpochAfterRotation(generated, old, new) == IF generated THEN new ELSE old

\* handle_new_guess_event: the key, secret and seed put into the judgment request
GuessRequest(e) ==
    [kind |-> "guess", key |-> e.key, secret |-> e.secret, seed |-> e.seed.rest]

\* handle_new_guess_event: the key and seed put into the hint request; the text of
\* prompts::create_hint_prompt is fixed and does not contain its argument
HintRequest(e) ==
    [kind |-> "hint", key |-> e.key, secret |-> 0, seed |-> e.seed.rest]

\* generate_new_secret: the request carries no secret and the caller's seed
SecretRequest(key, seed) ==
    [kind |-> "secret", key |-> key, secret |-> 0, seed |-> seed.rest]

NoRequest == [kind |-> "none", key |-> 0, secret |-> 0, seed |-> 0]

\* what the handler of the event at `pos` (new() for pos = 0) has done so far: the
\* parsed verdict, the recipients of its withdraw calls, its hint calls, the response
\* it was given, the seed handed to generate_new_secret, whether the key submission
\* returned Ok, the seeds of the secret requests it handed to the channel, and what
\* the ledger did with the transaction it sent ("none": nothing executed so far)
HandlerLog(pos) ==
    [pos |-> pos, verdict |-> "none", paid |-> <<>>, hinted |-> 0, accepted |-> <<>>,
     seed |-> NoSeed, submitted |-> FALSE, asked |-> <<>>, tx |-> "none"]

\* chain.failedAt when the last fetch did not fail
NoFailure == -1

\* pages, file writes and sleeps since the last backoff, and the cursor the last
\* fetch was issued with when it failed
NoChain == [pages |-> 0, writes |-> 0, sleeps |-> 0, failedAt |-> NoFailure]

\* main(): the task of trigger_shutdown_on_ctrl_c ("unpolled": not yet polled,
\* "pending": in its select!, "sent": past shutdown_tx.send(true), "done": returned,
\* its receiver dropped), whether the handler of SIGINT is installed, the task of
\* spawn_with_shutdown ("running" or what it returned) and how the process ended
\* (what main returned, or "killed")
NoProc == [watcher |-> "unpolled", sigint |-> FALSE, task |-> "running", exit |-> "none"]

\* the processes before this one: how many there were, how long the dispatch history
\* was and what the cursor file held when this one started, and the positions of the
\* events a withdrawal was made for
NoPast == [runs |-> 0, mark |-> 0, resumeAt |-> None, paid |-> {}]

\* the admin server (cli/src/server.rs): the handlers holding a guard of
\* state.client, the handlers waiting in write(), where each request is, the
\* requests whose transaction was sent and not yet executed, those whose transaction
\* was executed with success, in order, and those whose transaction failed
NoAdmin == [holders |-> {}, queue |-> <<>>, at |-> <<>>, sent |-> {}, ledger |-> <<>>, failed |-> {}]

Running == pc \notin {"stopped", "failed", "panicked", "killed"}

(***************************************************************************)
(* Initial state: nothing on the ledger, no cursor file, the process has    *)
(* just created the shutdown channel (main.rs:45)                           *)
(***************************************************************************)
Init ==
    /\ log = <<>>
    /\ registeredKey = 0
    /\ cursorFile = FileNotFound
    /\ shutdown = FALSE
    /\ changed = FALSE
    /\ pc = "new"
    /\ cursor = None
    /\ pageBase = 0
    /\ pageLen = 0
    /\ idx = 0
    /\ hasNext = FALSE
    /\ secret = 0
    /\ clientKey = 0
    /\ randomSeed = NoSeed
    /\ newKey = 0
    /\ newSeed = NoSeed
    /\ exitReason = ""
    /\ nextId = 1
    /\ dispatched = <<>>
    /\ active = 0
    /\ inflight = 0
    /\ lastReq = NoRequest
    /\ installed = Epoch(0, NoSeed, 0)
    /\ handler = HandlerLog(0)
    /\ chain = NoChain
    /\ signalAt = "none"
    /\ dropped = "none"
    /\ vResponse = GoodResponse("secret")
    /\ vResult = "unchecked"
    /\ box = NoBox
    /\ store = NoStore
    /\ chan = NoCall
    /\ net = NoNet
    /\ proc = NoProc
    /\ past = NoPast
    /\ admin = NoAdmin
    /\ closed = FALSE

envVars == <<log, registeredKey, cursorFile, shutdown, changed>>
pageVars == <<cursor, pageBase, pageLen, idx, hasNext>>
epochVars == <<secret, clientKey, randomSeed, installed>>
localVars == <<newKey, newSeed, nextId>>
histVars == <<dispatched, handler, chain>>
callVars == <<inflight, lastReq>>
shutVars == <<signalAt, dropped>>
pureVars == <<vResponse, vResult, box, store, chan, net, proc, past, admin, closed>>

(***************************************************************************)
(* Environment                                                             *)
(***************************************************************************)
\* The contract emits an event.  The engine reads the log only in query_events, so
\* an emission is placed where the engine is about to poll
Emit(e) ==
    /\ pc = "select"
    /\ Len(log) < MaxLog
    /\ log' = Append(log, e)
    /\ UNCHANGED <<registeredKey, cursorFile, shutdown, changed, pc, pageVars,
                   epochVars, localVars, exitReason, histVars, callVars, active>>
    /\ UNCHANGED <<shutVars, pureVars>>

\* the awaits of a confidential call inside an event handler
CallPoints == {"judge", "hint", "rot_call"}

\* shutdown_tx.send(true) by a holder of the sender (main.rs:45; the ctrl-c task of
\* trigger_shutdown_on_ctrl_c).  The send can come at any point of new() and run();
\* run() looks at the channel only in its select!.  `at` is what signalAt keeps
SendTrue(at) ==
    /\ Running
    /\ ~shutdown
    /\ ~closed
    /\ shutdown' = TRUE
    /\ changed' = TRUE
    /\ signalAt' = at
    /\ UNCHANGED <<log, registeredKey, cursorFile, pc, pageVars, epochVars, localVars,
                   exitReason, histVars, callVars, active, dropped>>
    /\ UNCHANGED pureVars

\* the signal is sent
CtrlC == SendTrue(signalAt)

\* the signal is sent, and where the engine was is kept in signalAt
CtrlCTraced == SendTrue(pc)

(***************************************************************************)
(* Helpers shared by the handlers                                          *)
(***************************************************************************)
SetEpoch(e) ==
    /\ clientKey' = e.key
    /\ randomSeed' = e.seed
    /\ secret' = e.secret

\* handle_event returned (Ok or Err, which run() logs): the for loop goes on
HandlerReturns ==
    /\ pc' = "drain"
    /\ idx' = idx + 1
    /\ active' = active - 1
    /\ exitReason' = exitReason
    /\ newKey' = 0
    /\ newSeed' = NoSeed

\* the panic of confidential_chat_completions on the answer r: unwrap_err() on a
\* status that is not an error (atoma.rs:124, 215), or unwrap() on the Err of
\* from_bytes in verify_signature (atoma.rs:538, 548)
CallPanic(r) == IF r.transport = "status_other" THEN "unwrap_err on Ok" ELSE "unwrap on Err"

\* a panic unwinds the engine task
Panics(why) ==
    /\ pc' = "panicked"
    /\ exitReason' = why
    /\ UNCHANGED <<idx, active, newKey, newSeed>>

\* variant of GenerationFails: new() goes on without an epoch
BootstrapFailureIgnored ==
    IF pc \in {"new_submit", "new_call"}
    THEN /\ pc' = "start"
         /\ exitReason' = exitReason
         /\ UNCHANGED <<idx, active, newKey, newSeed, secret, clientKey, randomSeed>>
    ELSE /\ HandlerReturns
         /\ SetEpoch(EpochAfterRotation(FALSE, CurrentEpoch,
                                        Epoch(newKey, newSeed, newKey + 1)))

\* generate_new_secret returned Err: new() returns it to main, the rotation handler
\* returns it to run(), with the engine's fields as EpochAfterRotation leaves them
GenerationFails ==
    IF pc \in {"new_submit", "new_call"}
    THEN /\ pc' = "failed"
         /\ exitReason' = "bootstrap failed"
         /\ UNCHANGED <<idx, active, newKey, newSeed, secret, clientKey, randomSeed>>
    ELSE /\ HandlerReturns
         /\ SetEpoch(EpochAfterRotation(FALSE, CurrentEpoch,
                                        Epoch(newKey, newSeed, newKey + 1)))

(***************************************************************************)
(* GuessAiEngine::new and generate_new_secret                               *)
(***************************************************************************)
\* new(): random seed and key are drawn, generate_new_secret submits the public key
New(seed) ==
    /\ pc = "new"
    /\ newKey' = nextId
    /\ nextId' = nextId + 2
    /\ newSeed' = seed
    /\ pc' = "new_submit"
    /\ handler' = [handler EXCEPT !.seed = seed]
    /\ UNCHANGED <<envVars, pageVars, epochVars, exitReason, dispatched, chain, callVars,
                   active>>
    /\ UNCHANGED <<shutVars, pureVars>>

\* submit_node_public_key / withdraw_funds_from_treasury_pool at
\* execute_transaction_must_succeed(tx).await: the ledger executes the transaction
\* that was sent, with success (the key is registered, the funds are withdrawn) or
\* not, while the engine still awaits the answer
TransactionExecutes(ok) ==
    /\ pc \in {"new_submit", "rot_submit", "payout"}
    /\ handler.tx = "none"
    /\ handler' = [handler EXCEPT !.tx = IF ok THEN "ok" ELSE "failed"]
    /\ registeredKey' = IF ok /\ pc # "payout" THEN newKey ELSE registeredKey
    /\ UNCHANGED <<log, cursorFile, shutdown, changed, pc, pageVars, epochVars, localVars,
                   exitReason, dispatched, chain, callVars, active>>
    /\ UNCHANGED <<shutVars, pureVars>>

\* generate_new_secret: submit_node_public_key returned; on Ok the request is built
\* (serde_json::from_value) and the confidential call is issued
GenSubmitReturn(outcome) ==
    /\ pc \in {"new_submit", "rot_submit"}
    /\ TxReturns(outcome, handler.tx)
    /\ registeredKey' = registeredKey
    /\ IF outcome \in {"panic", "rpc_err"}
       THEN /\ Panics(IF outcome = "rpc_err" THEN "rpc error" ELSE "transaction failed")
            /\ UNCHANGED <<secret, clientKey, randomSeed, inflight, lastReq, handler>>
       ELSE IF outcome = "ok" /\ FitsI64(newSeed)
       THEN /\ pc' = IF pc = "new_submit" THEN "new_call" ELSE "rot_call"
            /\ inflight' = inflight + 1
            /\ lastReq' = SecretRequest(newKey, newSeed)
            /\ handler' = [handler EXCEPT !.submitted = TRUE,
                                          !.asked = Append(@, SeedSent(newSeed))]
            /\ UNCHANGED <<idx, active, exitReason, newKey, newSeed, secret, clientKey,
                           randomSeed>>
       ELSE /\ GenerationFails
            /\ handler' = [handler EXCEPT !.submitted = (outcome = "ok")]
            /\ UNCHANGED <<inflight, lastReq>>
    /\ UNCHANGED <<log, cursorFile, shutdown, changed, cursor, pageBase, pageLen,
                   hasNext, installed, nextId, dispatched, chain>>
    /\ UNCHANGED <<shutVars, pureVars>>

\* generate_new_secret: the confidential call returned; the secret is parsed and, in
\* the rotation handler, the three fields are assigned
GenCallReturn(r) ==
    /\ pc \in {"new_call", "rot_call"}
    /\ inflight' = inflight - 1
    /\ lastReq' = NoRequest
    /\ IF confidential_chat_completions(r) = "panic"
       THEN /\ Panics(CallPanic(r))
            /\ UNCHANGED <<secret, clientKey, randomSeed, installed, handler>>
       ELSE IF confidential_chat_completions(r) # "ok"
       THEN /\ GenerationFails
            /\ UNCHANGED <<handler, installed>>
       ELSE /\ handler' = [handler EXCEPT !.accepted = <<r>>]
            /\ IF ~HasChoice(r.content)
               THEN /\ Panics("index out of bounds")
                    /\ UNCHANGED <<secret, clientKey, randomSeed, installed>>
               ELSE IF ~ParsesAsSecret(r.content)
               THEN /\ GenerationFails
                    /\ UNCHANGED installed
               ELSE /\ SetEpoch(EpochAfterRotation(TRUE, CurrentEpoch,
                                                   Epoch(newKey, newSeed, newKey + 1)))
                    /\ installed' = Epoch(newKey, newSeed, newKey + 1)
                    /\ IF pc = "new_call"
                       THEN /\ pc' = "start"
                            /\ newKey' = 0
                            /\ newSeed' = NoSeed
                            /\ UNCHANGED <<idx, active, exitReason>>
                       ELSE HandlerReturns
    /\ UNCHANGED <<envVars, cursor, pageBase, pageLen, hasNext, nextId, dispatched, chain>>
    /\ UNCHANGED <<shutVars, pureVars>>

(***************************************************************************)
(* GuessAiEngine::run                                                      *)
(***************************************************************************)
\* run(): build_client, then read_cursor_from_toml_file; either may fail (the read
\* on an I/O error other than NotFound, or on a text toml::from_str rejects)
RunStart(outcome) ==
    /\ pc = "start"
    /\ IF outcome = "ok" /\ read_cursor_result(cursorFile)
       THEN /\ pc' = "select"
            /\ cursor' = read_cursor_from_toml_file(cursorFile)
            /\ exitReason' = exitReason
       ELSE /\ pc' = "failed"
            /\ exitReason' = IF outcome = "ok" THEN "read_err" ELSE outcome
            /\ cursor' = cursor
    /\ UNCHANGED <<envVars, pageBase, pageLen, idx, hasNext, epochVars, localVars,
                   histVars, callVars, active>>
    /\ UNCHANGED <<shutVars, pureVars>>

\* variant of ShutdownPolledAt: the signal is also looked at while a call is pending
ShutdownPolledAnywhere(at) == at \in {"select", "fetching", "judge", "hint", "rot_call"}

\* variant of ShutdownPolledAt: the signal is also looked at between two events of a page
ShutdownPolledInLoop(at) == at \in {"select", "fetching", "drain"}

\* run(): shutdown_signal.changed() is awaited only in the select! at the top of
\* the loop
ShutdownPolledAt(at) == at \in {"select", "fetching"}

\* select!: the query_events future is polled, which issues the request; with the
\* shutdown signal already changed, or its channel closed, changed() is ready when
\* it is polled and the select! resolves at once (ObserveShutdown, RecvError)
PollFetch ==
    /\ pc = "select"
    /\ ~changed
    /\ ~closed
    /\ pc' = "fetching"
    /\ UNCHANGED <<envVars, pageVars, epochVars, localVars, exitReason, histVars,
                   callVars, active>>
    /\ UNCHANGED <<shutVars, pureVars>>

\* select!: query_events resolved with Ok(page)
FetchOk ==
    /\ pc = "fetching"
    /\ cursor' = CursorAfterPage(cursor, NextCursor(log, cursor, PageLimit))
    /\ pageBase' = PageBase(cursor)
    /\ pageLen' = PageSize(log, cursor, PageLimit)
    /\ hasNext' = HasNextPage(log, cursor, PageLimit)
    /\ idx' = 1
    /\ pc' = "drain"
    /\ chain' = [chain EXCEPT !.pages = @ + 1, !.failedAt = NoFailure]
    /\ UNCHANGED <<envVars, epochVars, localVars, exitReason, dispatched, handler,
                   callVars, active>>
    /\ UNCHANGED <<shutVars, pureVars>>

\* select!: query_events resolved with Err: logged, `continue`
FetchErr ==
    /\ pc = "fetching"
    /\ pc' = "select"
    /\ cursor' = CursorAfterError(cursor)
    /\ chain' = [chain EXCEPT !.failedAt = cursor]
    /\ UNCHANGED <<envVars, pageBase, pageLen, idx, hasNext, epochVars, localVars,
                   exitReason, dispatched, handler, callVars, active>>
    /\ UNCHANGED <<shutVars, pureVars>>

\* select!: shutdown_signal.changed() resolved.  The branches are polled in random
\* order: a query_events future that was polled (in this select!, fetch_polled, or
\* before the signal came, pc = "fetching") is dropped with the select!
ObserveShutdown(io, fetch_polled) ==
    /\ ShutdownPolledAt(pc)
    /\ pc = "fetching" => fetch_polled
    /\ changed
    /\ dropped' = IF pc = "fetching" THEN "pending"
                  ELSE IF fetch_polled THEN "issued" ELSE dropped
    /\ signalAt' = signalAt
    /\ changed' = FALSE
    /\ IF shutdown
       THEN /\ cursorFile' = write_cursor_to_toml_file(cursor, cursorFile, io)
            /\ pc' = IF write_cursor_result(cursor, io) THEN "stopped" ELSE "failed"
            /\ exitReason' = IF write_cursor_result(cursor, io)
                             THEN "shutdown" ELSE "cursor write failed"
            /\ chain' = IF write_attempted(cursor) /\ io = "ok"
                        THEN [chain EXCEPT !.writes = @ + 1] ELSE chain
       ELSE /\ pc' = "select"
            /\ UNCHANGED <<cursorFile, exitReason, chain>>
    /\ UNCHANGED <<log, registeredKey, shutdown, pageVars, epochVars, localVars,
                   dispatched, handler, callVars, active>>
    /\ UNCHANGED pureVars

\* the event the for loop is at
CurPos == EventAt(pageBase, idx)
CurEvent == log[CurPos]

\* variant of HandlerOf: a resubmitted attestation is handled as a rotation
ResubmissionRotates(name) ==
    IF name = "PublishEvent" THEN "log"
    ELSE IF name = "NewGuessEvent" THEN "guess"
    ELSE IF name \in {"RotateTdxQuoteEvent", "TDXQuoteResubmittedEvent"} THEN "rotate"
    ELSE "unknown"

\* handle_event: the arm of the `match` an event is handled by; a name from_str
\* rejects has no GuessAiEvent variant and never reaches handle_event
HandlerOf(name) ==
    IF name \in {"PublishEvent", "TDXQuoteResubmittedEvent"} THEN "log"
    ELSE IF name = "NewGuessEvent" THEN "guess"
    ELSE IF name = "RotateTdxQuoteEvent" THEN "rotate"
    ELSE "unknown"

AtEvent ==
    /\ pc = "drain"
    /\ idx <= pageLen

\* variant of AfterSkip: the rest of the page is given up
PageAbandoned(i, page_len) == page_len + 1

\* for loop: the Err arms of from_str and parse_event log (and `continue`); the loop
\* takes the next event of `data`
AfterSkip(i, page_len) == i + 1

\* for loop: from_str or parse_event failed; logged, the event is skipped
SkipEvent ==
    /\ AtEvent
    /\ ~from_str(CurEvent.name) \/ ~parse_event(CurEvent)
    /\ dispatched' = Append(dispatched, CurPos)
    /\ handler' = HandlerLog(CurPos)
    /\ idx' = AfterSkip(idx, pageLen)
    /\ UNCHANGED <<envVars, pc, cursor, pageBase, pageLen, hasNext, epochVars, localVars,
                   exitReason, chain, callVars, active>>
    /\ UNCHANGED <<shutVars, pureVars>>

\* handle_event: PublishEvent and TDXQuoteResubmittedEvent are logged
LogOnlyEvent ==
    /\ AtEvent
    /\ parse_event(CurEvent)
    /\ HandlerOf(CurEvent.name) = "log"
    /\ dispatched' = Append(dispatched, CurPos)
    /\ handler' = HandlerLog(CurPos)
    /\ idx' = idx + 1
    /\ UNCHANGED <<envVars, pc, cursor, pageBase, pageLen, hasNext, epochVars, localVars,
                   exitReason, chain, callVars, active>>
    /\ UNCHANGED <<shutVars, pureVars>>

\* handle_new_guess_event up to its first await: the judgment request is built from
\* the engine's secret, key and seed and handed to the confidential channel
StartNewGuess ==
    /\ AtEvent
    /\ parse_event(CurEvent)
    /\ HandlerOf(CurEvent.name) = "guess"
    /\ dispatched' = Append(dispatched, CurPos)
    /\ handler' = HandlerLog(CurPos)
    /\ IF FitsI64(randomSeed)
       THEN /\ pc' = "judge"
            /\ active' = active + 1
            /\ inflight' = inflight + 1
            /\ lastReq' = GuessRequest(CurrentEpoch)
            /\ idx' = idx
       ELSE /\ idx' = idx + 1
            /\ UNCHANGED <<pc, active, inflight, lastReq>>
    /\ UNCHANGED <<envVars, cursor, pageBase, pageLen, hasNext, epochVars, localVars,
                   exitReason, chain>>
    /\ UNCHANGED <<shutVars, pureVars>>

\* handle_new_guess_event: the judgment call returned; the answer is parsed, a
\* correct guess starts the withdrawal, otherwise the hint condition is evaluated
JudgeReturn(r) ==
    /\ pc = "judge"
    /\ IF confidential_chat_completions(r) = "panic"
       THEN /\ Panics(CallPanic(r))
            /\ inflight' = inflight - 1
            /\ lastReq' = NoRequest
            /\ handler' = handler
       ELSE IF confidential_chat_completions(r) # "ok"
       THEN /\ HandlerReturns
            /\ inflight' = inflight - 1
            /\ lastReq' = NoRequest
            /\ handler' = handler
       ELSE IF ~HasChoice(r.content)
       THEN /\ Panics("index out of bounds")
            /\ inflight' = inflight - 1
            /\ lastReq' = NoRequest
            /\ handler' = [handler EXCEPT !.accepted = <<r>>]
       ELSE IF ~ParsesAsGuess(r.content)
       THEN /\ HandlerReturns
            /\ inflight' = inflight - 1
            /\ lastReq' = NoRequest
            /\ handler' = [handler EXCEPT !.accepted = <<r>>]
       ELSE IF r.content = "guess_true"
       THEN /\ handler' = [handler EXCEPT !.accepted = <<r>>, !.verdict = "true",
                                          !.paid = Append(@, Winner(CurEvent))]
            /\ pc' = "payout"
            /\ inflight' = inflight - 1
            /\ lastReq' = NoRequest
            /\ UNCHANGED <<idx, active, exitReason, newKey, newSeed>>
       ELSE IF HintDue(CurEvent.guess_count, HintWaitCount)
       THEN /\ handler' = [handler EXCEPT !.accepted = <<r>>, !.verdict = "false",
                                          !.hinted = @ + 1]
            /\ lastReq' = HintRequest(CurrentEpoch)
            /\ pc' = "hint"
            /\ inflight' = inflight
            /\ UNCHANGED <<idx, active, exitReason, newKey, newSeed>>
       ELSE /\ HandlerReturns
            /\ inflight' = inflight - 1
            /\ lastReq' = NoRequest
            /\ handler' = [handler EXCEPT !.accepted = <<r>>, !.verdict = "false"]
    /\ UNCHANGED <<envVars, cursor, pageBase, pageLen, hasNext, epochVars, nextId,
                   dispatched, chain>>
    /\ UNCHANGED <<shutVars, pureVars>>

\* handle_new_guess_event: withdraw_funds_from_treasury_pool returned or panicked; Err
\* leaves the handler, Ok reaches todo!() (engine.rs:318)
PayoutReturn(outcome) ==
    /\ pc = "payout"
    /\ TxReturns(outcome, handler.tx)
    /\ IF outcome = "err"
       THEN HandlerReturns
       ELSE Panics(IF outcome = "ok" THEN "not yet implemented"
                   ELSE IF outcome = "rpc_err" THEN "rpc error" ELSE "transaction failed")
    /\ UNCHANGED <<envVars, cursor, pageBase, pageLen, hasNext, epochVars, nextId,
                   histVars, callVars>>
    /\ UNCHANGED <<shutVars, pureVars>>

\* handle_new_guess_event: the hint call returned; a parsed hint reaches todo!()
\* (engine.rs:341)
HintReturn(r) ==
    /\ pc = "hint"
    /\ inflight' = inflight - 1
    /\ lastReq' = NoRequest
    /\ IF confidential_chat_completions(r) = "panic"
       THEN /\ Panics(CallPanic(r))
            /\ handler' = handler
       ELSE IF confidential_chat_completions(r) # "ok"
       THEN /\ HandlerReturns
            /\ handler' = handler
       ELSE /\ handler' = [handler EXCEPT !.accepted = <<r>>]
            /\ IF ~HasChoice(r.content)
               THEN Panics("index out of bounds")
               ELSE IF ~ParsesAsHint(r.content)
               THEN HandlerReturns
               ELSE Panics("not yet implemented")
    /\ UNCHANGED <<envVars, cursor, pageBase, pageLen, hasNext, epochVars, nextId,
                   dispatched, chain>>
    /\ UNCHANGED <<shutVars, pureVars>>

\* handle_rotate_tdx_quote_event up to its first await: a new key is drawn and
\* generate_new_secret submits its public key
StartRotate ==
    /\ AtEvent
    /\ parse_event(CurEvent)
    /\ HandlerOf(CurEvent.name) = "rotate"
    /\ dispatched' = Append(dispatched, CurPos)
    /\ handler' = [HandlerLog(CurPos) EXCEPT !.seed = CurEvent.random_seed]
    /\ newKey' = nextId
    /\ nextId' = nextId + 2
    /\ newSeed' = CurEvent.random_seed
    /\ pc' = "rot_submit"
    /\ active' = active + 1
    /\ UNCHANGED <<envVars, pageVars, epochVars, exitReason, chain, callVars>>
    /\ UNCHANGED <<shutVars, pureVars>>

\* after the for loop, `if !has_next_page`: the cursor is written, then the sleep
Checkpoint(io) ==
    /\ pc = "drain"
    /\ idx > pageLen
    /\ ShouldCheckpoint(hasNext)
    /\ cursorFile' = write_cursor_to_toml_file(cursor, cursorFile, io)
    /\ handler' = HandlerLog(0)
    /\ IF write_cursor_result(cursor, io)
       THEN /\ pc' = "sleep"
            /\ exitReason' = exitReason
            /\ chain' = [chain EXCEPT
                           !.writes = IF write_attempted(cursor) THEN @ + 1 ELSE @,
                           !.sleeps = @ + 1]
       ELSE /\ pc' = "failed"
            /\ exitReason' = "cursor write failed"
            /\ chain' = chain
    /\ UNCHANGED <<log, registeredKey, shutdown, changed, pageVars, epochVars, localVars,
                   dispatched, callVars, active>>
    /\ UNCHANGED <<shutVars, pureVars>>

\* after the for loop of a page with has_next_page: straight back to select!
NextPage ==
    /\ pc = "drain"
    /\ idx > pageLen
    /\ ~ShouldCheckpoint(hasNext)
    /\ pc' = "select"
    /\ handler' = HandlerLog(0)
    /\ UNCHANGED <<envVars, pageVars, epochVars, localVars, exitReason, dispatched,
                   chain, callVars, active>>
    /\ UNCHANGED <<shutVars, pureVars>>

\* tokio::time::sleep(100 ms) elapsed
Wake ==
    /\ pc = "sleep"
    /\ pc' = "select"
    /\ chain' = NoChain
    /\ UNCHANGED <<envVars, pageVars, epochVars, localVars, exitReason, dispatched,
                   handler, callVars, active>>
    /\ UNCHANGED <<shutVars, pureVars>>

Next ==
    \/ \E e \in Events : Emit(e)
    \/ CtrlC
    \/ \E seed \in BootSeeds : New(seed)
    \/ \E ok \in BOOLEAN : TransactionExecutes(ok)
    \/ \E outcome \in TxOutcomes : GenSubmitReturn(outcome)
    \/ \E r \in Responses({"secret"}) : GenCallReturn(r)
    \/ \E outcome \in {"ok", "client_err", "read_err"} : RunStart(outcome)
    \/ PollFetch
    \/ FetchOk
    \/ FetchErr
    \/ \E io \in IoOutcomes, fetch_polled \in BOOLEAN : ObserveShutdown(io, fetch_polled)
    \/ SkipEvent
    \/ LogOnlyEvent
    \/ StartNewGuess
    \/ \E r \in Responses({"guess_true", "guess_false"}) : JudgeReturn(r)
    \/ \E outcome \in TxOutcomes : PayoutReturn(outcome)
    \/ \E r \in Responses({"hint"}) : HintReturn(r)
    \/ StartRotate
    \/ \E io \in IoOutcomes : Checkpoint(io)
    \/ NextPage
    \/ Wake

Spec == Init /\ [][Next]_vars

\* a ledger that carries one event of each kind
LiveEvents ==
    {Event("PublishEvent", TRUE, 0, 0, NoSeed),
     Event("TransferEvent", TRUE, 0, 0, NoSeed),
     Event("NewGuessEvent", TRUE, 50, 1, NoSeed),
     Event("RotateTdxQuoteEvent", TRUE, 0, 0, U64(0, 42))}

NextLive ==
    \/ \E e \in LiveEvents : Emit(e)
    \/ CtrlCTraced
    \/ \E seed \in BootSeeds : New(seed)
    \/ \E ok \in BOOLEAN : TransactionExecutes(ok)
    \/ \E outcome \in TxOutcomes : GenSubmitReturn(outcome)
    \/ \E r \in Responses({"secret"}) : GenCallReturn(r)
    \/ \E outcome \in {"ok", "client_err", "read_err"} : RunStart(outcome)
    \/ PollFetch
    \/ FetchOk
    \/ FetchErr
    \/ \E io \in IoOutcomes, fetch_polled \in BOOLEAN : ObserveShutdown(io, fetch_polled)
    \/ SkipEvent
    \/ LogOnlyEvent
    \/ StartNewGuess
    \/ \E r \in Responses({"guess_true", "guess_false"}) : JudgeReturn(r)
    \/ \E outcome \in TxOutcomes : PayoutReturn(outcome)
    \/ \E r \in Responses({"hint"}) : HintReturn(r)
    \/ StartRotate
    \/ \E io \in IoOutcomes : Checkpoint(io)
    \/ NextPage
    \/ Wake

\* The runtime runs the engine task: a select! whose shutdown branch is ready
\* completes.  The engine runs against a ledger of LiveEvents
SpecLive ==
    /\ Init
    /\ [][NextLive]_vars
    /\ WF_vars(\E io \in IoOutcomes, fetch_polled \in BOOLEAN : ObserveShutdown(io, fetch_polled))

(***************************************************************************)
(* Response verification on its own: every combination of hash and          *)
(* signature a decrypted response can arrive with                           *)
(***************************************************************************)
VerifyInputs ==
    {Response("ok", "ok", c, h, sp, sg, sc, pk, rg, sd) :
        c \in {"guess_true", "secret"}, h \in {NoHash} \cup Digests, sp \in BOOLEAN,
        sg \in BOOLEAN, sc \in Schemes, pk \in BOOLEAN, rg \in BOOLEAN, sd \in Digests}

\* the engine's variables where a specification of one component leaves them
EngineOff(at) ==
    /\ log = <<>>
    /\ registeredKey = 0
    /\ cursorFile = FileNotFound
    /\ shutdown = FALSE
    /\ changed = FALSE
    /\ pc = at
    /\ cursor = None
    /\ pageBase = 0
    /\ pageLen = 0
    /\ idx = 0
    /\ hasNext = FALSE
    /\ secret = 0
    /\ clientKey = 0
    /\ randomSeed = NoSeed
    /\ newKey = 0
    /\ newSeed = NoSeed
    /\ exitReason = ""
    /\ nextId = 1
    /\ dispatched = <<>>
    /\ active = 0
    /\ inflight = 0
    /\ lastReq = NoRequest
    /\ installed = Epoch(0, NoSeed, 0)
    /\ handler = HandlerLog(0)
    /\ chain = NoChain
    /\ signalAt = "none"
    /\ dropped = "none"

engineVars == <<envVars, pc, pageVars, epochVars, localVars, exitReason, histVars, callVars, active, shutVars>>

InitVerify ==
    /\ EngineOff("verify")
    /\ vResponse \in VerifyInputs
    /\ vResult = "unchecked"
    /\ box = NoBox
    /\ store = NoStore
    /\ chan = NoCall
    /\ net = NoNet
    /\ proc = NoProc
    /\ past = NoPast
    /\ admin = NoAdmin
    /\ closed = FALSE

\* confidential_chat_completions, atoma.rs:248: the decrypted response is verified
Verify ==
    /\ pc = "verify"
    /\ vResult = "unchecked"
    /\ vResult' = verify_response_hash_and_signature(vResponse)
    /\ UNCHANGED <<engineVars, vResponse, box, store, chan, net, proc, past, admin, closed>>

NextVerify == Verify

SpecVerify == InitVerify /\ [][NextVerify]_vars

(***************************************************************************)
(* Encryption round trip on its own: A seals for B, B opens                *)
(***************************************************************************)
PrivateKeys == 1 .. 4
Nonces == 1 .. 2
Salts == 1 .. 2
\* the bytes that are sealed: serialized requests (none of them is a
\* ChatCompletionResponse) and serialized responses
Plaintexts == {"guess", "secret_prompt", "hint_prompt", "secret", "guess_true"}

InitEcdh ==
    /\ EngineOff("ecdh")
    /\ vResponse = GoodResponse("secret")
    /\ vResult = "unchecked"
    /\ box \in [a : PrivateKeys, b : PrivateKeys, nonce : Nonces, salt : Salts,
                plaintext : Plaintexts, opened : {"none"}, out : {"none"}]
    /\ store = NoStore
    /\ chan = NoCall
    /\ net = NoNet
    /\ proc = NoProc
    /\ past = NoPast
    /\ admin = NoAdmin
    /\ closed = FALSE

\* the bytes are sealed as encrypt_chat_completions_request seals them, with A's
\* private and B's public key, then given to decrypt_chat_completions_response with
\* B's private and A's public key: `opened` is what cipher.decrypt returned
\* (atoma.rs:414-417), `out` what the function returned after serde_json::from_slice
RoundTrip ==
    /\ pc = "ecdh"
    /\ box.out = "none"
    /\ LET ciphertext == seal(box.plaintext, box.a, PublicKey(box.b), box.nonce, box.salt) IN
       box' = [box EXCEPT
                 !.opened = decrypt_plaintext(ciphertext, box.b, PublicKey(box.a),
                                              box.nonce, box.salt),
                 !.out = decrypt_chat_completions_response(ciphertext, box.b,
                                                           PublicKey(box.a), box.nonce,
                                                           box.salt)]
    /\ UNCHANGED <<engineVars, vResponse, vResult, store, chan, net, proc, past, admin, closed>>

NextEcdh == RoundTrip

SpecEcdh == InitEcdh /\ [][NextEcdh]_vars

(***************************************************************************)
(* Decryption followed by the hash check, on the bytes: the node seals a   *)
(* JSON document and supplies a hash; the client opens it, deserializes    *)
(* it, serializes the struct again and hashes that                         *)
(***************************************************************************)
\* how the bytes of a JSON document are laid out: as serde_json::to_vec writes the
\* struct (compact, fields in declaration order, "usage":null when absent), with
\* whitespace between the tokens, or with a member the struct has no field for
Layouts == {"serde", "spaced", "extra"}

\* the bytes of a document that holds `body`
JsonText(body, layout) == [body |-> body, layout |-> layout]

JsonTexts == {JsonText(c, l) : c \in Contents, l \in Layouts}

\* serde_json::from_slice::<ChatCompletionResponse>(&plaintext): whitespace and
\* unknown members are dropped
from_slice(plaintext) == plaintext.body

\* serde_json::to_vec(response_body)
to_vec(response_body) == JsonText(response_body, "serde")

\* utils::blake2b_hash(bytes): one digest per byte string; the digest of to_vec(body)
\* is blake2b_hash(body)
blake2b_bytes(text) ==
    blake2b_hash(text.body)
    + 6 * (CASE text.layout = "serde" -> 0 [] text.layout = "spaced" -> 1 [] OTHER -> 2)

ByteDigests == {blake2b_bytes(t) : t \in JsonTexts}

InitIntegrity ==
    /\ EngineOff("integrity")
    /\ vResponse = GoodResponse("secret")
    /\ vResult = "unchecked"
    /\ box \in [a : {3}, b : {5}, nonce : Nonces, salt : Salts, plaintext : JsonTexts,
                hash : {NoHash} \cup ByteDigests, out : {"none"}]
    /\ store = NoStore
    /\ chan = NoCall
    /\ net = NoNet
    /\ proc = NoProc
    /\ past = NoPast
    /\ admin = NoAdmin
    /\ closed = FALSE

\* confidential_chat_completions, atoma.rs:226-248: the node has sealed
\* box.plaintext for the client and signed the hash it supplies; the client
\* decrypts, deserializes and verifies
OpenAndVerify ==
    /\ pc = "integrity"
    /\ box.out = "none"
    /\ LET key == hkdf(box.salt, diffie_hellman(box.b, PublicKey(box.a)))
           plaintext == decrypt_plaintext(aes_encrypt(key, box.nonce, box.plaintext),
                                          box.a, PublicKey(box.b), box.nonce, box.salt)
           response_body == from_slice(plaintext)
           fields == [GoodResponse(response_body) EXCEPT !.response_hash = box.hash,
                                                          !.sig_signed = box.hash]
       IN box' = [box EXCEPT !.out = verify_response_hash_and_signature(fields)]
    /\ UNCHANGED <<engineVars, vResponse, vResult, store, chan, net, proc, past, admin, closed>>

NextIntegrity == OpenAndVerify

SpecIntegrity == InitIntegrity /\ [][NextIntegrity]_vars

(***************************************************************************)
(* The admin server on its own (cli/src/server.rs): concurrent HTTP        *)
(* requests, each handled by one of the six handlers, all of the same      *)
(* shape: state.client.write().await, the client method (move_call, sign,  *)
(* execute), return                                                        *)
(***************************************************************************)
MaxRequests == 3
Requests == 1 .. MaxRequests

\* tokio::sync::RwLock::write(): granted to the longest waiting handler once no
\* guard is held
WriteGranted(holders, queue, r) == holders = {} /\ queue # <<>> /\ Head(queue) = r

\* the handlers that hold the guard `client` and are inside the client method
Writing == {r \in DOMAIN admin.at : admin.at[r] \in {"build", "execute"}}

\* the queue of write() without the handler r
Without(queue, r) == SelectSeq(queue, LAMBDA q : q # r)

InitAdmin ==
    /\ EngineOff("admin")
    /\ vResponse = GoodResponse("secret")
    /\ vResult = "unchecked"
    /\ box = NoBox
    /\ store = NoStore
    /\ chan = NoCall
    /\ net = NoNet
    /\ proc = NoProc
    /\ past = NoPast
    /\ admin = [NoAdmin EXCEPT !.at = [r \in Requests |-> "idle"]]
    /\ closed = FALSE

\* a request is routed to its handler, which calls state.client.write()
AdminRequest(r) ==
    /\ pc = "admin"
    /\ admin.at[r] = "idle"
    /\ admin' = [admin EXCEPT !.at[r] = "wait", !.queue = Append(@, r)]
    /\ UNCHANGED <<engineVars, vResponse, vResult, box, store, chan, net, proc, past, closed>>

\* write().await returned the guard: the handler calls the client method, which
\* starts building the transaction (move_call)
AdminLocks(r) ==
    /\ pc = "admin"
    /\ admin.at[r] = "wait"
    /\ WriteGranted(admin.holders, admin.queue, r)
    /\ admin' = [admin EXCEPT !.at[r] = "build", !.queue = Tail(@),
                              !.holders = @ \cup {r}]
    /\ UNCHANGED <<engineVars, vResponse, vResult, box, store, chan, net, proc, past, closed>>

\* move_call returned: on Err the handler answers 500 and its guard is dropped; on
\* Ok the transaction is signed and sent, execute_transaction_must_succeed is awaited
AdminBuilt(r, ok) ==
    /\ pc = "admin"
    /\ admin.at[r] = "build"
    /\ admin' = IF ok
                THEN [admin EXCEPT !.at[r] = "execute", !.sent = @ \cup {r}]
                ELSE [admin EXCEPT !.at[r] = "error", !.holders = @ \ {r}]
    /\ UNCHANGED <<engineVars, vResponse, vResult, box, store, chan, net, proc, past, closed>>

\* the ledger executes a transaction it was sent, with success or not, whether or
\* not the handler that sent it still awaits the answer
LedgerExecutes(r, ok) ==
    /\ pc = "admin"
    /\ r \in admin.sent
    /\ admin' = IF ok
                THEN [admin EXCEPT !.sent = @ \ {r}, !.ledger = Append(@, r)]
                ELSE [admin EXCEPT !.sent = @ \ {r}, !.failed = @ \cup {r}]
    /\ UNCHANGED <<engineVars, vResponse, vResult, box, store, chan, net, proc, past, closed>>

\* execute_transaction_must_succeed returned (the handler answers 200) or panicked,
\* on the response of a failed transaction or on the error of the RPC (the handler's
\* task unwinds); either way the guard is dropped.  The RPC ends with the response
\* of the executed transaction ("ok"), with an error after the request was sent
\* ("lost": the answer is lost, whatever the ledger did or will do), or with an error
\* before the ledger had the transaction ("unsent")
AdminExecuted(r, rpc) ==
    /\ pc = "admin"
    /\ admin.at[r] = "execute"
    /\ \/ /\ rpc = "ok"
          /\ r \notin admin.sent
          /\ admin' = [admin EXCEPT !.at[r] = IF r \in admin.failed THEN "panicked" ELSE "ok",
                                    !.holders = @ \ {r}]
       \/ /\ rpc = "lost"
          /\ admin' = [admin EXCEPT !.at[r] = "panicked", !.holders = @ \ {r}]
       \/ /\ rpc = "unsent"
          /\ r \in admin.sent
          /\ admin' = [admin EXCEPT !.at[r] = "panicked", !.holders = @ \ {r},
                                    !.sent = @ \ {r}]
    /\ UNCHANGED <<engineVars, vResponse, vResult, box, store, chan, net, proc, past, closed>>

\* the connection of the request is closed while its handler is at an await: the
\* server drops the handler's future, and with it the guard or the place in the
\* queue of write(); a transaction that was sent stays with the ledger
AdminDropped(r) ==
    /\ pc = "admin"
    /\ admin.at[r] \in {"wait", "build", "execute"}
    /\ admin' = [admin EXCEPT !.at[r] = "dropped", !.holders = @ \ {r},
                              !.queue = Without(@, r)]
    /\ UNCHANGED <<engineVars, vResponse, vResult, box, store, chan, net, proc, past, closed>>

NextAdmin ==
    \/ \E r \in Requests : AdminRequest(r)
    \/ \E r \in Requests : AdminLocks(r)
    \/ \E r \in Requests, ok \in BOOLEAN : AdminBuilt(r, ok)
    \/ \E r \in Requests, ok \in BOOLEAN : LedgerExecutes(r, ok)
    \/ \E r \in Requests, rpc \in {"ok", "lost", "unsent"} : AdminExecuted(r, rpc)
    \/ \E r \in Requests : AdminDropped(r)

SpecAdmin == InitAdmin /\ [][NextAdmin]_vars

(***************************************************************************)
(* The confidential channel on its own: calls made one after the other by  *)
(* a caller holding one key, against a node that may rotate its key        *)
(***************************************************************************)
MaxCalls == 2
NodeKeys == {5, 6}
ClientKeys == {3}

InitChannel ==
    /\ EngineOff("channel")
    /\ vResponse = GoodResponse("secret")
    /\ vResult = "unchecked"
    /\ box = NoBox
    /\ store = NoStore
    /\ chan = NoCall
    /\ net = [NoNet EXCEPT !.node = [priv |-> 5, stack |-> 1]]
    /\ proc = NoProc
    /\ past = NoPast
    /\ admin = NoAdmin
    /\ closed = FALSE

\* the node replaces its key pair and its stack
NodeRotates ==
    /\ pc = "channel"
    /\ \E k \in NodeKeys \ {net.node.priv} :
           net' = [net EXCEPT !.node = [priv |-> k, stack |-> k - 4]]
    /\ UNCHANGED <<engineVars, vResponse, vResult, box, store, chan, proc, past, admin, closed>>

\* confidential_chat_completions is entered: request_node_public_url sends its GET
CallBegin(key) ==
    /\ pc = "channel"
    /\ chan.pc \in {"idle", "done"}
    /\ net.calls < MaxCalls
    /\ chan' = [NoCall EXCEPT !.pc = "discover", !.key = key, !.lookups = 1]
    /\ net' = [net EXCEPT !.calls = @ + 1,
                          !.cached = IF chan.entry.wire = "ok" THEN chan.entry ELSE @]
    /\ UNCHANGED <<engineVars, vResponse, vResult, box, store, proc, past, admin, closed>>

\* how a call ends: it returns to its caller, or its panic unwinds the caller's task
CallEnd(result) == IF result = "panic" THEN "panicked" ELSE "done"

\* request_node_public_url returned: on Ok and a 32-byte key, nonce and salt are
\* drawn, the request is encrypted and the POST is sent
\* (a public_key that is not base64 returns before the nonce and the salt are drawn;
\* one of the wrong length returns after both draws)
DiscoveryReturns(d) ==
    /\ pc = "channel"
    /\ chan.pc = "discover"
    /\ IF request_node_public_url(d) # "ok"
       THEN /\ chan' = [chan EXCEPT !.pc = CallEnd(request_node_public_url(d)), !.entry = d,
                                    !.result = request_node_public_url(d)]
            /\ net' = net
       ELSE IF node_public_key_bytes(d) # "ok"
       THEN /\ chan' = [chan EXCEPT !.pc = "done", !.entry = d,
                                    !.result = node_public_key_bytes(d)]
            /\ net' = IF d.b64_ok THEN [net EXCEPT !.rand = @ + 2] ELSE net
       ELSE LET nonce == net.rand + 1
                salt == net.rand + 2
                e == EntryForCall(d, net.cached)
            IN /\ chan' = [chan EXCEPT
                             !.pc = "compute", !.entry = d, !.nonce = nonce, !.salt = salt,
                             !.posts = @ + 1,
                             !.envelope = encrypt_chat_completions_request(
                                              "guess", chan.key, e.public_key, nonce, salt,
                                              e.stack_small_id)]
               /\ net' = [net EXCEPT !.rand = @ + 2,
                                     !.used = Append(@, <<chan.key, salt, nonce>>)]
    /\ UNCHANGED <<engineVars, vResponse, vResult, box, store, proc, past, admin, closed>>

\* the answers of the compute endpoint: a failed exchange, or a body sealed by a
\* node key for the envelope's client key and salt, under the request's nonce or a
\* new one, with valid or invalid hash and signature fields
ComputeAnswers ==
    {ComputeAnswer(w, 0, NoCiphertext, NoFields) : w \in {"send_err", "status_err", "status_other", "json_err", "b64_err", "nonce_len", "hash_len"}}
    \cup {ComputeAnswer("ok", n,
                        aes_encrypt(hkdf(chan.envelope.salt,
                                         diffie_hellman(k, chan.envelope.client_dh_public_key)),
                                    n, body),
                        f) :
            n \in {chan.envelope.nonce, net.rand + 1}, k \in NodeKeys,
            body \in {"guess_true", "guess"},
            f \in {GoodResponse("guess_true"),
                   [GoodResponse("guess_true") EXCEPT !.response_hash = NoHash],
                   [GoodResponse("guess_true") EXCEPT !.sig_signed = 0],
                   [GoodResponse("guess_true") EXCEPT !.sig_scheme = "Secp256r1",
                                                      !.sig_in_range = FALSE]}}

\* the POST returned: the fields are decoded, the ciphertext is decrypted with the
\* response's nonce and the call's salt, the body is verified
ComputeReturns(a) ==
    /\ pc = "channel"
    /\ chan.pc = "compute"
    /\ LET result == compute_result(a, chan.key, chan.entry.public_key, chan.salt) IN
       chan' = [chan EXCEPT !.pc = CallEnd(result), !.answer = a, !.result = result]
    /\ net' = IF a.wire = "ok"
              THEN [net EXCEPT !.rand = @ + 1,
                               !.used = Append(@, <<chan.key, chan.salt, a.nonce>>)]
              ELSE net
    /\ UNCHANGED <<engineVars, vResponse, vResult, box, store, proc, past, admin, closed>>

NextChannel ==
    \/ NodeRotates
    \/ \E key \in ClientKeys : CallBegin(key)
    \/ \E d \in DirectoryAnswers(net.node) : DiscoveryReturns(d)
    \/ \E a \in ComputeAnswers : ComputeReturns(a)

SpecChannel == InitChannel /\ [][NextChannel]_vars

(***************************************************************************)
(* The cursor store on its own: one put (which the process may not         *)
(* survive), then one get                                                  *)
(***************************************************************************)
Digests58 == 1 .. 3
Sequences64 == {0, 7, 10, 42}
Cursors == {SomeCursor(d, n) : d \in Digests58, n \in Sequences64}

\* texts the engine did not write: the two lines in the other order, a line of a key
\* EventID does not have, no line at all
OtherTexts ==
    LET d == [key |-> "tx_digest", digest |-> 1, digits |-> <<>>]
        s == [key |-> "event_seq", digest |-> 0, digits |-> <<7>>]
    IN {<<s, d>>, <<d, s, [key |-> "comment", digest |-> 0, digits |-> <<1>>]>>, <<>>}

InitCursor ==
    /\ EngineOff("cursor")
    /\ vResponse = GoodResponse("secret")
    /\ vResult = "unchecked"
    /\ box = NoBox
    /\ \E f \in {AbsentFile} \cup {FileWith(toml_to_string(c)) : c \in Cursors}
                \cup {FileWith(t) : t \in OtherTexts} :
           store = [NoStore EXCEPT !.file = f, !.before = f]
    /\ chan = NoCall
    /\ net = NoNet
    /\ proc = NoProc
    /\ past = NoPast
    /\ admin = NoAdmin
    /\ closed = FALSE

\* write_cursor_to_toml_file(Some(c)): the text is made and std::fs::write opens the
\* file, which truncates it
PutBegin(c) ==
    /\ pc = "cursor"
    /\ store.phase = "idle"
    /\ store' = [store EXCEPT !.put = c, !.phase = "created", !.file = fs_create(@)]
    /\ UNCHANGED <<engineVars, vResponse, vResult, box, chan, net, proc, past, admin, closed>>

\* std::fs::write: write_all
PutWrite ==
    /\ pc = "cursor"
    /\ store.phase = "created"
    /\ store' = [store EXCEPT !.phase = "written",
                              !.file = fs_write_all(@, toml_to_string(store.put))]
    /\ UNCHANGED <<engineVars, vResponse, vResult, box, chan, net, proc, past, admin, closed>>

\* variant of PutNone: the file is opened for writing and left empty
PutNoneTruncates ==
    /\ pc = "cursor"
    /\ store.phase = "idle"
    /\ store' = [store EXCEPT !.phase = "written", !.file = fs_create(@)]
    /\ UNCHANGED <<engineVars, vResponse, vResult, box, chan, net, proc, past, admin, closed>>

\* write_cursor_to_toml_file(None): nothing is written
PutNone ==
    /\ pc = "cursor"
    /\ store.phase = "idle"
    /\ store' = [store EXCEPT !.phase = "written"]
    /\ UNCHANGED <<engineVars, vResponse, vResult, box, chan, net, proc, past, admin, closed>>

\* std::fs::write is cut short after File::create, with n lines of the text stored:
\* the process is killed, or write_all returns an error
Crash(n) ==
    /\ pc = "cursor"
    /\ store.phase = "created"
    /\ LET text == toml_to_string(store.put) IN
       store' = [store EXCEPT !.phase = "written", !.crashed = TRUE,
                               !.file = fs_write_all(@, SubSeq(text, 1, Min(n, Len(text))))]
    /\ UNCHANGED <<engineVars, vResponse, vResult, box, chan, net, proc, past, admin, closed>>

\* read_cursor_from_toml_file, by the same or by the next process
Get ==
    /\ pc = "cursor"
    /\ store.phase \in {"idle", "written"}
    /\ store' = [store EXCEPT !.phase = "read", !.got = read_cursor_text(store.file)]
    /\ UNCHANGED <<engineVars, vResponse, vResult, box, chan, net, proc, past, admin, closed>>

NextCursorStore ==
    \/ \E c \in Cursors : PutBegin(c)
    \/ PutWrite
    \/ PutNone
    \/ \E n \in 0 .. 2 : Crash(n)
    \/ Get

SpecCursor == InitCursor /\ [][NextCursorStore]_vars

(***************************************************************************)
(* The process (main.rs): main spawns the ctrl-c task and the engine's task *)
(* and joins them.  The watch channel has two receivers: the engine's       *)
(* (dropped with the engine when run() returns) and the ctrl-c task's       *)
(* (dropped when that task returns); Sender::send fails when there is none. *)
(***************************************************************************)
sideVars == <<vResponse, vResult, box, store, chan, net, admin, closed>>

\* run() was called and has returned or panicked
RunEnded == pc \in {"stopped", "failed", "panicked"} /\ installed.key # 0

\* new() has returned Err or panicked
NewEnded == pc \in {"failed", "panicked"} /\ installed.key = 0

\* the receivers of the watch channel once run() has returned: the ctrl-c task's
ReceiversLeft(watcher) == IF watcher = "done" THEN 0 ELSE 1

\* watch::Sender::send: Ok when a receiver is left
watch_send(receivers) == receivers > 0

\* spawn_with_shutdown: what the task returns for run()'s result `res`
spawn_with_shutdown(res, receivers) ==
    IF res = "ok" THEN "ok"
    ELSE IF watch_send(receivers) THEN res
    ELSE "send_err"

\* handle_tasks_results: the engine's result is looked at first, the ctrl-c task
\* returns Ok on both of its branches
handle_tasks_results(guess_ai_result, ctrl_c_result) ==
    IF guess_ai_result # "ok" THEN guess_ai_result ELSE ctrl_c_result

\* the ctrl-c task and the engine's task exist: new() has returned Ok and main has
\* spawned both (main.rs:46-50), and the process has not ended
Spawned == installed.key # 0 /\ proc.exit = "none"

\* trigger_shutdown_on_ctrl_c, first poll of its select!: tokio::signal::ctrl_c()
\* is polled and installs the handler of SIGINT, which stays installed
WatcherPolls ==
    /\ Spawned
    /\ proc.watcher = "unpolled"
    /\ proc' = [proc EXCEPT !.watcher = "pending", !.sigint = TRUE]
    /\ UNCHANGED <<engineVars, sideVars, past>>

\* SIGINT while no handler is installed (during new(), before the first poll of the
\* ctrl-c task, or when that task returned on changed() without polling ctrl_c()):
\* the default action ends the process, nothing more is run
SigintKills ==
    /\ proc.exit = "none"
    /\ ~proc.sigint
    /\ proc' = [proc EXCEPT !.exit = "killed"]
    /\ pc' = "killed"
    /\ UNCHANGED <<envVars, pageVars, epochVars, localVars, exitReason, histVars,
                   callVars, active, shutVars>>
    /\ UNCHANGED <<sideVars, past>>

\* trigger_shutdown_on_ctrl_c, first branch: ctrl_c() resolved, shutdown_tx.send(true)
WatcherCtrlC ==
    /\ Spawned
    /\ proc.watcher = "pending"
    /\ ~shutdown
    /\ shutdown' = TRUE
    /\ changed' = TRUE
    /\ proc' = [proc EXCEPT !.watcher = "sent"]
    /\ UNCHANGED <<log, registeredKey, cursorFile, pc, pageVars, epochVars, localVars,
                   exitReason, histVars, callVars, active, shutVars>>
    /\ UNCHANGED <<sideVars, past>>

\* trigger_shutdown_on_ctrl_c returns: after its send, or on its second branch when
\* shutdown_rx.changed() resolved (select! polls its branches in a random order: on
\* the first poll this branch can be ready before ctrl_c() was polled); the task's
\* receiver is dropped
WatcherReturns ==
    /\ Spawned
    /\ proc.watcher = "sent" \/ (proc.watcher \in {"unpolled", "pending"} /\ shutdown)
    /\ proc' = [proc EXCEPT !.watcher = "done"]
    /\ UNCHANGED <<engineVars, sideVars, past>>

\* spawn_with_shutdown: f.await returned (the engine is dropped); on Err the task
\* sends true, which sets the value when a receiver is left
TaskEnds ==
    /\ RunEnded
    /\ proc.task = "running"
    /\ LET res == IF pc = "stopped" THEN "ok" ELSE "engine_err"
           out == spawn_with_shutdown(res, ReceiversLeft(proc.watcher))
       IN /\ proc' = [proc EXCEPT !.task = IF pc = "panicked" THEN "join_err" ELSE out]
          /\ shutdown' = (shutdown \/ (pc = "failed" /\ out = "engine_err"))
    /\ UNCHANGED <<log, registeredKey, cursorFile, changed, pc, pageVars, epochVars,
                   localVars, exitReason, histVars, callVars, active, shutVars>>
    /\ UNCHANGED <<sideVars, past>>

\* main: `GuessAiEngine::new(..).await?` returned Err (or panicked)
MainReturnsEarly ==
    /\ NewEnded
    /\ proc.exit = "none"
    /\ proc' = [proc EXCEPT !.exit = IF pc = "failed" THEN "bootstrap_err" ELSE "panic"]
    /\ UNCHANGED <<engineVars, sideVars, past>>

\* main: try_join!(join_handle, ctrl_c)? resolves when both tasks have returned, or
\* at once when the engine's task panicked; then handle_tasks_results
MainJoins ==
    /\ proc.exit = "none"
    /\ proc.task # "running"
    /\ proc.watcher = "done" \/ proc.task = "join_err"
    /\ proc' = [proc EXCEPT !.exit = handle_tasks_results(proc.task, "ok")]
    /\ UNCHANGED <<engineVars, sideVars, past>>

NextProcess ==
    \/ \E e \in Events : Emit(e)
    \/ WatcherPolls
    \/ SigintKills
    \/ WatcherCtrlC
    \/ WatcherReturns
    \/ TaskEnds
    \/ MainReturnsEarly
    \/ MainJoins
    \/ \E seed \in BootSeeds : New(seed)
    \/ \E ok \in BOOLEAN : TransactionExecutes(ok)
    \/ \E outcome \in TxOutcomes : GenSubmitReturn(outcome)
    \/ \E r \in Responses({"secret"}) : GenCallReturn(r)
    \/ \E outcome \in {"ok", "client_err", "read_err"} : RunStart(outcome)
    \/ PollFetch
    \/ FetchOk
    \/ FetchErr
    \/ \E io \in IoOutcomes, fetch_polled \in BOOLEAN : ObserveShutdown(io, fetch_polled)
    \/ SkipEvent
    \/ LogOnlyEvent
    \/ StartNewGuess
    \/ \E r \in Responses({"guess_true", "guess_false"}) : JudgeReturn(r)
    \/ \E outcome \in TxOutcomes : PayoutReturn(outcome)
    \/ \E r \in Responses({"hint"}) : HintReturn(r)
    \/ StartRotate
    \/ \E io \in IoOutcomes : Checkpoint(io)
    \/ NextPage
    \/ Wake

SpecProcess == Init /\ [][NextProcess]_vars

(***************************************************************************)
(* The process over its restarts: it may be killed at any point, or end,    *)
(* and is started again; the ledger and the cursor file stay, the engine    *)
(* starts from new() and the dispatch history goes on                       *)
(***************************************************************************)
MaxRestarts == 1

RestartEvents ==
    {Event("PublishEvent", TRUE, 0, 0, NoSeed), Event("NewGuessEvent", TRUE, 5, 2, NoSeed)}

\* the withdrawal of the event being handled was executed by the ledger, whether or
\* not the handler has seen the answer
WithdrawalExecuted == handler.paid # <<>> /\ handler.tx = "ok"

\* main() of a new process: a new watch channel, a new engine; nothing of the old
\* process is left but the cursor file and what is on the ledger
Restart ==
    /\ pc # "new"
    /\ past.runs < MaxRestarts
    /\ past' = [runs |-> past.runs + 1,
                mark |-> Len(dispatched),
                resumeAt |-> read_cursor_from_toml_file(cursorFile),
                paid |-> past.paid \cup (IF WithdrawalExecuted THEN {handler.pos} ELSE {})]
    /\ pc' = "new"
    /\ shutdown' = FALSE
    /\ changed' = FALSE
    /\ cursor' = None
    /\ pageBase' = 0
    /\ pageLen' = 0
    /\ idx' = 0
    /\ hasNext' = FALSE
    /\ secret' = 0
    /\ clientKey' = 0
    /\ randomSeed' = NoSeed
    /\ newKey' = 0
    /\ newSeed' = NoSeed
    /\ exitReason' = ""
    /\ active' = 0
    /\ inflight' = 0
    /\ lastReq' = NoRequest
    /\ installed' = Epoch(0, NoSeed, 0)
    /\ handler' = HandlerLog(0)
    /\ chain' = NoChain
    /\ signalAt' = "none"
    /\ dropped' = "none"
    /\ UNCHANGED <<log, registeredKey, cursorFile, nextId, dispatched, sideVars, proc>>

NextRestart ==
    \/ \E e \in RestartEvents : Emit(e)
    \/ CtrlC
    \/ Restart
    \/ \E seed \in BootSeeds : New(seed)
    \/ \E ok \in BOOLEAN : TransactionExecutes(ok)
    \/ \E outcome \in TxOutcomes : GenSubmitReturn(outcome)
    \/ \E r \in Responses({"secret"}) : GenCallReturn(r)
    \/ \E outcome \in {"ok", "client_err", "read_err"} : RunStart(outcome)
    \/ PollFetch
    \/ FetchOk
    \/ FetchErr
    \/ \E io \in IoOutcomes, fetch_polled \in BOOLEAN : ObserveShutdown(io, fetch_polled)
    \/ LogOnlyEvent
    \/ StartNewGuess
    \/ \E r \in Responses({"guess_true", "guess_false"}) : JudgeReturn(r)
    \/ \E outcome \in TxOutcomes : PayoutReturn(outcome)
    \/ \E io \in IoOutcomes : Checkpoint(io)
    \/ NextPage
    \/ Wake

SpecRestart == Init /\ [][NextRestart]_vars

(***************************************************************************)
(* run() under any owner of the shutdown channel: besides sending true,    *)
(* the owner may send false and may drop every Sender                      *)
(***************************************************************************)
SignalEvents == {Event("PublishEvent", TRUE, 0, 0, NoSeed)}

\* Sender::send(false), at any point of new() and run(): the value is replaced (a
\* true that run() has not looked at yet is lost) and the receivers are notified
SendFalse ==
    /\ Running
    /\ ~closed
    /\ shutdown' = FALSE
    /\ changed' = TRUE
    /\ UNCHANGED <<log, registeredKey, cursorFile, pc, pageVars, epochVars,
                   localVars, exitReason, histVars, callVars, active, shutVars>>
    /\ UNCHANGED <<vResponse, vResult, box, store, chan, net, proc, past, admin, closed>>

\* the last Sender is dropped, at any point of new() and run(): the channel is closed
DropSender ==
    /\ Running
    /\ ~closed
    /\ closed' = TRUE
    /\ UNCHANGED <<engineVars, vResponse, vResult, box, store, chan, net, proc, past, admin>>

\* select!: shutdown_signal.changed() resolved with Err (engine.rs:592-598): the
\* channel is closed and its last value was seen.  The error is logged and the
\* loop goes round; a query_events future that was polled is dropped
RecvError(fetch_polled) ==
    /\ ShutdownPolledAt(pc)
    /\ pc = "fetching" => fetch_polled
    /\ ~changed
    /\ closed
    /\ pc' = "select"
    /\ dropped' = IF pc = "fetching" THEN "pending"
                  ELSE IF fetch_polled THEN "issued" ELSE dropped
    /\ UNCHANGED <<envVars, pageVars, epochVars, localVars, exitReason, histVars,
                   callVars, active, signalAt>>
    /\ UNCHANGED pureVars

NextSignal ==
    \/ \E e \in SignalEvents : Emit(e)
    \/ CtrlC
    \/ SendFalse
    \/ DropSender
    \/ \E seed \in BootSeeds : New(seed)
    \/ \E ok \in BOOLEAN : TransactionExecutes(ok)
    \/ \E outcome \in TxOutcomes : GenSubmitReturn(outcome)
    \/ \E r \in Responses({"secret"}) : GenCallReturn(r)
    \/ \E outcome \in {"ok", "client_err", "read_err"} : RunStart(outcome)
    \/ PollFetch
    \/ FetchOk
    \/ FetchErr
    \/ \E io \in IoOutcomes, fetch_polled \in BOOLEAN : ObserveShutdown(io, fetch_polled)
    \/ \E fetch_polled \in BOOLEAN : RecvError(fetch_polled)
    \/ LogOnlyEvent
    \/ \E io \in IoOutcomes : Checkpoint(io)
    \/ NextPage
    \/ Wake

SpecSignal == Init /\ [][NextSignal]_vars

(***************************************************************************)
(* Properties                                                              *)
(***************************************************************************)
HandledEvent == log[handler.pos]

\* a response on which every check of the channel succeeds
FullyVerified(r) ==
    /\ r.transport = "ok"
    /\ r.decrypt = "ok"
    /\ r.response_hash # NoHash
    /\ r.sig_present
    /\ r.response_hash = blake2b_hash(r.content)
    /\ r.sig_parse
    /\ r.sig_pk_ok
    /\ r.sig_scheme \in {"ED25519", "Secp256k1", "Secp256r1"}
    /\ r.sig_in_range
    /\ r.sig_signed = blake2b_hash(r.content)

\* C1: events are dispatched in log order, within a page and across pages, none
\* twice and none skipped; the loop is at an event only when no handler is running,
\* so at most one handler runs and at most one confidential call is in flight
C1_SequentialDispatch ==
    /\ \A k \in 1 .. Len(dispatched) : dispatched[k] = k
    /\ active \in {0, 1}
    /\ (pc = "drain" => active = 0)
    /\ inflight \in {0, 1}
    /\ (inflight = 1 <=> pc \in {"new_call", "rot_call", "judge", "hint"})

C1_Witness ==
    /\ pc = "judge"
    /\ pageBase > 0
    /\ Len(dispatched) >= 3
    /\ Len(dispatched) = pageBase + idx
    /\ inflight = 1

\* the position the cursor file holds (none when the file does not exist; a file
\* emptied by a failed write holds no position and cannot be read)
PersistedCursor == read_cursor_from_toml_file(cursorFile)

\* C2: neither the in-memory cursor nor the persisted cursor ever moves to an
\* earlier position, whatever pages (non-empty, empty, failed reads) the ledger
\* returns and whatever checkpoints are taken; a file emptied by a failed write
\* holds no position and never holds one again
C2_CursorNeverRegresses ==
    [][/\ cursor' >= cursor
       /\ cursorFile = EmptyFile => cursorFile' = EmptyFile
       /\ cursorFile' # EmptyFile => PersistedCursor' >= PersistedCursor]_vars

C2_Witness ==
    /\ pc = "drain"
    /\ pageLen = 0
    /\ cursor >= 2
    /\ cursorFile = cursor

\* C3: the cursor file is written only after the last event of a page without a
\* next page, or at shutdown; a page with a next page is followed by the next fetch
\* with no write and no sleep; so a chain of two pages ends with exactly one write
C3_CheckpointDiscipline ==
    /\ [](Running /\ pc # "sleep" => chain.writes = 0)
    /\ [](pc = "sleep" =>
            /\ chain.sleeps = 1
            /\ chain.writes = IF cursor # None THEN 1 ELSE 0)
    /\ [][(cursorFile' # cursorFile \/ chain'.writes > chain.writes) =>
            \/ pc = "drain" /\ idx > pageLen /\ ~hasNext
            \/ pc \in {"select", "fetching"} /\ shutdown /\ pc' \in {"stopped", "failed"}]_vars
    /\ [][(pc = "drain" /\ idx > pageLen /\ hasNext) =>
            /\ cursorFile' = cursorFile
            /\ chain' = chain
            /\ pc' \in {"drain", "select"}]_vars

C3_Witness ==
    /\ pc = "sleep"
    /\ chain.pages = 2
    /\ chain.writes = 1
    /\ chain.sleeps = 1
    /\ cursorFile = cursor

\* C4: no failure met while an event is handled (a failed confidential call, a model
\* response that cannot be used, a ledger submission that fails) takes the engine out
\* of its loop.  The aborts at the unfinished announcer (todo!) are left out of this
\* statement
C4_BadEventNeverAborts ==
    ~(/\ pc = "panicked"
      /\ active = 1
      /\ exitReason \in {"index out of bounds", "transaction failed", "rpc error",
                          "unwrap_err on Ok", "unwrap on Err"})

\* C5: a judgment request carries the secret and is encrypted with the client key
\* of the epoch installed by the last successful rotation or by bootstrap (a hint
\* request is encrypted with the same key)
C5_JudgedAgainstCurrentEpoch ==
    /\ lastReq.kind \in {"guess", "hint"} =>
           /\ installed.key # 0
           /\ lastReq.key = installed.key
    /\ lastReq.kind = "guess" => lastReq.secret = installed.secret

C5_Witness ==
    /\ pc = "judge"
    /\ lastReq.kind = "guess"
    /\ installed.key > 1
    /\ lastReq.secret = installed.secret
    /\ \E k \in 1 .. Len(dispatched) - 1 : log[k].name = "RotateTdxQuoteEvent"

RotationSucceeded ==
    /\ pc = "drain"
    /\ handler.pos > 0
    /\ HandledEvent.name = "RotateTdxQuoteEvent"
    /\ handler.accepted # <<>>
    /\ ParsesAsSecret(handler.accepted[1].content)

\* C6: the engine's key, seed and secret always are those of one generation, the
\* last one that succeeded; after a rotation event is handled successfully they are
\* the key drawn for it, the event's seed and the secret generated for it
C6_RotationAtomic ==
    /\ CurrentEpoch = installed
    /\ (clientKey = 0 /\ secret = 0) \/ secret = clientKey + 1
    /\ RotationSucceeded =>
          /\ randomSeed = HandledEvent.random_seed
          /\ clientKey = nextId - 2
          /\ secret = nextId - 1

C6_Witness ==
    /\ RotationSucceeded
    /\ clientKey = 3
    /\ randomSeed = U64(0, 42)

\* C7: the handler of a NewGuess makes one withdrawal, to the event's sender, when
\* the judgment says is_correct = true, and none when it says false or when the
\* judgment fails; no hint call is made when guess_count is not a multiple of the
\* hint interval
C7_PayoutExactlyOnce ==
    handler.pos > 0 =>
        /\ (handler.verdict = "true" => handler.paid = <<HandledEvent.sender>>)
        /\ (handler.verdict # "true" => handler.paid = <<>>)
        /\ (~HintDue(HandledEvent.guess_count, HintWaitCount) => handler.hinted = 0)

C7_Witness ==
    /\ pc = "payout"
    /\ handler.verdict = "true"
    /\ HandledEvent.guess_count = 5
    /\ handler.paid = <<2>>
    /\ handler.hinted = 0

\* C8: once the handler of a judged NewGuess is past the withdrawal, it has made a
\* hint call if and only if guess_count is a multiple of the hint interval,
\* whether the guess was judged correct or not
C8_HintIffDue ==
    (handler.pos > 0 /\ handler.verdict # "none" /\ pc # "payout") =>
        (handler.hinted = 1 <=> HintDue(HandledEvent.guess_count, HintWaitCount))

\* a response is handed to the engine only when the transport, the decryption,
\* the hash comparison and the signature verification all succeeded; a withdrawal,
\* a hint call and a change of the engine's epoch happen only after such a response
OnlyVerifiedAccepted ==
    /\ [](handler.accepted # <<>> => FullyVerified(handler.accepted[1]))
    /\ [](handler.paid # <<>> \/ handler.hinted > 0 => handler.accepted # <<>>)
    /\ [][CurrentEpoch' # CurrentEpoch =>
            /\ handler'.accepted # <<>>
            /\ FullyVerified(handler'.accepted[1])
            /\ ParsesAsSecret(handler'.accepted[1].content)]_vars

\* C9: a response is handed to the engine only when decryption, hash comparison and
\* signature verification all succeeded, and payout, hint and epoch change happen
\* only after such a response; when one of the checks fails the call returns an
\* error: it does not panic in the check
C9_OnlyVerifiedReachesLogic ==
    /\ OnlyVerifiedAccepted
    /\ [](pc = "panicked" => exitReason # "unwrap on Err")

\* verification succeeds exactly when the hash and the signature are present, the
\* hash equals the recomputed one, the signature is well-formed, of scheme Ed25519,
\* Secp256k1 or Secp256r1, and a valid signature of the hash
VerifyOkExactly ==
    vResult # "unchecked" =>
        /\ (vResult = "ok" <=> FullyVerified(vResponse))
        /\ (vResponse.response_hash = NoHash \/ ~vResponse.sig_present
              => vResult = "Response hash or signature is missing")

\* C10: verification returns Ok exactly when hash and signature are present, the
\* hash equals the recomputed one and the signature is a valid signature of it under
\* one of the three schemes, and returns an error in every other case
C10_VerifyExact ==
    /\ VerifyOkExactly
    /\ vResult # "panic"

\* the statement as the specification has it: what the decrypting function returns
\* is the original plaintext
C14_PlaintextReturned ==
    box.out # "none" => box.out = box.plaintext

\* C14: for any two key pairs A and B, a plaintext sealed with A's private key and
\* B's public key is opened by cipher.decrypt to the same plaintext with B's private
\* key and A's public key under the same nonce and salt; the decrypting function
\* then returns it when it is a response body and ParseResponseError when it is not
C14_EcdhRoundTrip ==
    box.out # "none" =>
        /\ box.opened = box.plaintext
        /\ box.out = IF IsResponseBody(box.plaintext) THEN box.plaintext
                     ELSE "ParseResponseError"

C14_Witness ==
    /\ box.out = "ParseResponseError"
    /\ box.opened = "guess"
    /\ box.a = 2
    /\ box.b = 3
    /\ PublicKey(box.a) # PublicKey(box.b)

\* the directory lookup of the call failed or returned a key that is not 32 bytes
DiscoveryFailed ==
    chan.entry.wire # "ok" \/ ~chan.entry.b64_ok \/ chan.entry.key_len # PUBLIC_KEY_SIZE

\* the compute exchange failed, or its ciphertext does not open, or the body is not
\* a response, or its hash or signature is not valid
ComputeFailed ==
    \/ chan.answer.wire # "ok"
    \/ chan.answer.ciphertext.key # hkdf(chan.salt, diffie_hellman(chan.key, chan.entry.public_key))
    \/ chan.answer.ciphertext.nonce # chan.answer.nonce
    \/ ~IsResponseBody(chan.answer.ciphertext.plaintext)
    \/ ~FullyVerified([chan.answer.fields EXCEPT !.content = chan.answer.ciphertext.plaintext])

\* a call issues exactly one directory lookup and at most one compute request; when
\* the lookup fails or the key is not 32 bytes no compute request is sent; a call
\* that returns, returns Ok only when no step failed
OneLookupOnePost ==
    /\ chan.lookups = IF chan.pc = "idle" THEN 0 ELSE 1
    /\ chan.posts \in {0, 1}
    /\ chan.pc \in {"compute", "panicked"} /\ chan.posts = 1 => ~DiscoveryFailed
    /\ chan.pc = "compute" => chan.posts = 1
    /\ chan.pc = "done" =>
          /\ DiscoveryFailed => chan.posts = 0 /\ chan.result # "ok"
          /\ ~DiscoveryFailed => chan.posts = 1
          /\ chan.result = "ok" <=> ~DiscoveryFailed /\ ~ComputeFailed

\* C11: a call issues exactly one directory lookup and at most one compute request,
\* none after a failed lookup or a key that is not 32 bytes, and every failure,
\* a status that is not 2xx included, ends the call by returning an error
C11_NoInternalRetry ==
    /\ OneLookupOnePost
    /\ chan.pc # "panicked"

\* a call panicked on a status of the compute endpoint that is not 2xx, 4xx or 5xx,
\* after one lookup and one compute request
C11_CallPanicked ==
    /\ chan.pc = "panicked"
    /\ chan.result = "panic"
    /\ chan.posts = 1
    /\ chan.answer.wire = "status_other"

\* C12: no two messages, requests sealed or responses opened, are processed under
\* the same client key, salt and nonce
C12_TripleUsedOnce ==
    \A i \in 1 .. Len(net.used) : \A j \in 1 .. Len(net.used) :
        i # j => net.used[i] # net.used[j]

\* C13: the envelope of a call names the node key and the stack its own lookup
\* returned, and its key is derived from that node key, whatever an earlier call
\* was answered
C13_FreshDirectoryEntry ==
    chan.posts = 1 =>
        /\ chan.lookups = 1
        /\ chan.entry.wire = "ok"
        /\ chan.envelope.node_dh_public_key = chan.entry.public_key
        /\ chan.envelope.stack_small_id = chan.entry.stack_small_id
        /\ chan.envelope.ciphertext.key =
               hkdf(chan.salt, diffie_hellman(chan.key, chan.entry.public_key))

C13_Witness ==
    /\ net.calls = 2
    /\ chan.posts = 1
    /\ net.cached.wire = "ok"
    /\ net.cached.public_key # chan.entry.public_key
    /\ chan.entry.public_key = PublicKey(net.node.priv)
    /\ chan.envelope.node_dh_public_key = chan.entry.public_key

\* C15: a get after a completed put of X returns Some(X); a get on a store whose
\* file does not exist returns None and no error
C15_CursorRoundTrip ==
    store.phase = "read" =>
        /\ (store.put.some /\ ~store.crashed =>
               store.got = [status |-> "ok", value |-> store.put])
        /\ (~store.file.exists => store.got = [status |-> "ok", value |-> NoCursor])

C15_Witness ==
    /\ store.phase = "read"
    /\ store.before.exists
    /\ store.put = SomeCursor(2, 42)
    /\ store.before # store.file
    /\ store.got.value = store.put

\* C17: whenever the put is interrupted, the file holds the complete previous or
\* the complete new position, and a later get returns one of the two without error
C17_PutAtomic ==
    /\ store.put.some =>
          store.file \in {store.before, FileWith(toml_to_string(store.put))}
    /\ store.phase = "read" /\ store.crashed =>
          /\ store.got.status = "ok"
          /\ store.got \in {read_cursor_text(store.before),
                            [status |-> "ok", value |-> store.put]}

\* C16: a failed read of the cursor at startup and a failed write of the cursor at
\* a checkpoint or at shutdown end run() with an error; from then on nothing is
\* fetched, dispatched or written, and the engine goes past a checkpoint only with
\* the cursor in the file
C16_CursorIoFatal ==
    /\ [](exitReason \in {"read_err", "cursor write failed"} => pc = "failed")
    /\ [](pc = "sleep" /\ cursor # None => cursorFile = cursor)
    /\ [][pc = "failed" =>
            /\ pc' = "failed"
            /\ UNCHANGED <<cursor, cursorFile, dispatched, chain, handler, active, inflight>>]_vars

C16_Witness ==
    /\ pc = "failed"
    /\ exitReason = "cursor write failed"
    /\ cursor # None
    /\ cursorFile # cursor
    /\ Len(log) > Len(dispatched)

\* the engine is at the select! at the top of its loop (about to poll it, or parked
\* in it with the fetch pending) and the signal has become true
ShutdownPending == pc \in {"select", "fetching"} /\ shutdown /\ changed

\* the statement as the specification has it: once the signal is true and the
\* engine is at the top of its loop, it writes the in-memory cursor and run() returns
\* Ok; after that nothing is fetched and no handler runs
C18_ShutdownAlwaysPersists ==
    /\ ShutdownPending ~> (pc = "stopped")
    /\ [][(ShutdownPending /\ pc' \notin {pc, "drain", "select"}) =>
            /\ pc' = "stopped"
            /\ cursor # None => cursorFile' = cursor]_vars
    /\ [][pc = "stopped" =>
            /\ pc' = "stopped"
            /\ UNCHANGED <<cursor, cursorFile, dispatched, chain, handler, active, inflight>>]_vars

\* C18: once the signal is true and the engine is at the top of its loop, the
\* select! ends run(), unless it was parked on a fetch that completes first, whose
\* page is then drained; run() ends with Ok and the file holding the in-memory
\* cursor, or, when that write fails, with the error of the write; after the end
\* no page is fetched and no handler runs
C18_ShutdownPersistsAndStops ==
    /\ (pc = "select" /\ shutdown /\ changed) ~> (pc \in {"stopped", "failed"})
    /\ ShutdownPending ~> (pc \in {"stopped", "failed", "drain"})
    /\ [](pc = "stopped" =>
            /\ exitReason = "shutdown"
            /\ cursor # None => cursorFile = cursor)
    /\ [][(ShutdownPending /\ pc' # pc) =>
            \/ pc' = "stopped"
            \/ pc' = "failed" /\ exitReason' = "cursor write failed"
            \/ pc = "fetching" /\ pc' \in {"drain", "select"}]_vars
    /\ [][(pc \in {"stopped", "failed"}) =>
            (/\ pc' = pc
             /\ UNCHANGED <<cursor, cursorFile, dispatched, chain, handler, active,
                            inflight>>)]_vars

C18_Witness ==
    /\ pc = "stopped"
    /\ chain.pages >= 1
    /\ hasNext
    /\ chain.writes = 1
    /\ cursor = PageLimit
    /\ cursorFile = cursor

\* C19: a fetch that is pending when the signal comes is not dropped: the engine
\* does not stop before that fetch has returned
C19_InFlightFetchCompletes ==
    ~(signalAt = "fetching" /\ dropped = "pending")

\* C20: when the signal comes during the backoff sleep, the engine goes from the
\* sleep to its end, and issues no fetch on the way
C20_SleepRacedWithShutdown ==
    signalAt = "sleep" => pc \in {"sleep", "stopped", "failed"} /\ dropped = "none"

\* C22: a failed creation of the first epoch (key submission, confidential call,
\* parsing of the secret) ends the engine before any page is fetched, any event
\* dispatched or the cursor written; while no epoch was ever installed the engine is
\* in new() or ended; every dispatched event sees a secret and a key
C22_BootstrapFatal ==
    /\ exitReason = "bootstrap failed" => pc = "failed" /\ installed.key = 0
    /\ installed.key = 0 =>
          /\ pc \in {"new", "new_submit", "new_call", "failed", "panicked"}
          /\ dispatched = <<>>
          /\ chain = NoChain
          /\ cursorFile = FileNotFound
          /\ cursor = None
    /\ Len(dispatched) > 0 => secret # 0 /\ clientKey # 0 /\ CurrentEpoch = installed

C22_Witness ==
    /\ pc = "failed"
    /\ exitReason = "bootstrap failed"
    /\ handler.submitted
    /\ handler.asked = <<U64(0, 7)>>
    /\ registeredKey = newKey

\* C23: once the payout of a correct guess is submitted, or the hint of a
\* hint-triggering guess is generated, the handler returns to the loop: the engine
\* does not abort at the announcement
C23_AnnouncementNeverBlocks ==
    (handler.pos > 0 /\ (handler.paid # <<>> \/ handler.hinted > 0)) =>
        ~(pc = "panicked" /\ exitReason = "not yet implemented")

\* C24: an event whose type name is not known triggers no handler; the step of the
\* loop at it takes the next event of the page; when the page is drained every
\* event up to the cursor was visited, the cursor being the page's next_cursor
C24_UnknownEventSkipped ==
    /\ [][(AtEvent /\ ~from_str(CurEvent.name) /\ <<pc, idx>>' # <<pc, idx>>) =>
            /\ pc' = "drain"
            /\ idx' = idx + 1
            /\ dispatched' = Append(dispatched, CurPos)
            /\ handler' = HandlerLog(CurPos)
            /\ UNCHANGED <<active, inflight, lastReq, registeredKey, cursor, cursorFile,
                           secret, clientKey, randomSeed, exitReason>>]_vars
    /\ [](pc = "drain" /\ pageLen > 0 => cursor = pageBase + pageLen)
    /\ [](pc = "drain" /\ idx > pageLen => Len(dispatched) = cursor)

C24_Witness ==
    /\ pc = "drain"
    /\ pageLen = 2
    /\ idx > pageLen
    /\ log[pageBase + 1].name = "TransferEvent"
    /\ log[pageBase + 2].name = "PublishEvent"
    /\ dispatched[Len(dispatched)] = pageBase + 2
    /\ cursor = pageBase + 2

\* C25: after a failed fetch the engine is running with the cursor the fetch was
\* issued with; the failure changes neither the cursor file nor what was dispatched;
\* every page received starts after the cursor, so the next fetch asks again with
\* the same cursor
C25_ReadErrorTransient ==
    /\ [](chain.failedAt # NoFailure =>
            /\ pc \in {"select", "fetching", "stopped", "failed"}
            /\ cursor = chain.failedAt)
    /\ [][(pc = "fetching" /\ pc' = "select") =>
            /\ chain'.failedAt = cursor
            /\ UNCHANGED <<cursor, cursorFile, dispatched, handler, active, inflight,
                           exitReason, secret, clientKey, randomSeed>>]_vars
    /\ [][(pc = "fetching" /\ pc' = "drain") => pageBase' = PageBase(cursor)]_vars

C25_Witness ==
    /\ pc = "fetching"
    /\ chain.failedAt = 2
    /\ cursor = 2
    /\ cursorFile = 2
    /\ Len(log) = 3

\* C26: a verified judgment response whose content is not a {is_correct,
\* explanation} object (other text, or no choice at all) ends the handling of the
\* NewGuess with no payout and no hint, and the engine goes on
C26_MismatchNeverAccepted ==
    (/\ handler.pos > 0
     /\ HandledEvent.name = "NewGuessEvent"
     /\ handler.verdict = "none"
     /\ handler.accepted # <<>>
     /\ ~ParsesAsGuess(handler.accepted[1].content)) =>
        /\ pc # "panicked"
        /\ handler.paid = <<>>
        /\ handler.hinted = 0

\* C27: the withdrawal of a correct guess is attempted once, and when its
\* transaction fails to build, to be submitted or to execute the engine keeps running
C27_SubmitFailureNotFatal ==
    handler.paid # <<>> =>
        /\ Len(handler.paid) = 1
        /\ ~(pc = "panicked" /\ exitReason \in {"transaction failed", "rpc error"})

\* the awaits of a confidential call
PendingCall == {"new_call", "rot_call", "judge", "hint"}

\* a step that leaves the call pending changes nothing of the engine
StillPending ==
    /\ pc' = pc
    /\ UNCHANGED <<cursor, cursorFile, dispatched, chain, handler, idx, inflight, lastReq,
                   exitReason>>
    /\ changed => changed'

\* the step of the engine out of a pending call is the return of that call
CallReturned ==
    /\ pc' \notin {pc, "stopped", "select", "fetching", "sleep"}
    /\ inflight' = inflight - 1 \/ (pc = "judge" /\ pc' = "hint")
    /\ UNCHANGED <<cursor, cursorFile, dispatched, chain, changed, shutdown>>

\* C28: while a confidential call is pending the only step of the engine is the
\* return of that call: nothing is fetched, dispatched or written, the shutdown
\* signal is not consumed and the engine does not stop
C28_PendingCallBlocksEngine ==
    /\ [](pc \in PendingCall => inflight = 1 /\ lastReq # NoRequest)
    /\ [][(pc \in PendingCall) => (StillPending \/ CallReturned)]_vars

C28_Witness ==
    /\ pc = "judge"
    /\ inflight = 1
    /\ shutdown
    /\ changed
    /\ lastReq.kind = "guess"

\* C30: when the key submission of a secret generation returned Ok, one secret
\* request was handed to the channel, and its seed is the seed of the event (or
\* the seed drawn by new())
C30_SeedCarriedExactly ==
    handler.submitted => handler.asked = <<handler.seed>>

\* C21: when run() has ended with an error and its task has returned, the watch
\* value is true and the task returned the engine's error; when main has returned
\* after such an end, the ctrl-c task has returned and main returns the engine's
\* error
C21_FatalFailureTripsShutdown ==
    (pc = "failed" /\ RunEnded /\ proc.task # "running") =>
        /\ shutdown
        /\ proc.task = "engine_err"
        /\ proc.exit # "none" => proc.watcher = "done" /\ proc.exit = "engine_err"

\* C29: every run of the process visits, in order and from the first on, the events
\* after the position the cursor file held when it started: so no event is skipped
\* by a restart, and the events handled since the last write of the file are
\* delivered again; the file never holds the position of an event that was not
\* visited or whose handler has not returned
C29_ResumeFromPersistedCursor ==
    /\ \A k \in past.mark + 1 .. Len(dispatched) :
           dispatched[k] = past.resumeAt + (k - past.mark)
    /\ \A k \in 1 .. Len(dispatched) : \A p \in 1 .. dispatched[k] :
           \E j \in 1 .. k : dispatched[j] = p
    /\ \A p \in 1 .. cursorFile : \E j \in 1 .. Len(dispatched) : dispatched[j] = p
    /\ active = 1 => cursorFile < handler.pos

C29_Witness ==
    /\ past.runs = 1
    /\ past.resumeAt = 1
    /\ past.paid = {2}
    /\ handler.pos = 2
    /\ WithdrawalExecuted
    /\ dispatched = <<1, 2, 2>>

\* C31: a public key is on the ledger only once the secret of its epoch has been
\* obtained: the registered key is the key of the last epoch whose secret creation
\* succeeded, so no key is registered while the secret call of new() is pending
\* or after the secret creation failed
C31_KeyRegisteredAfterSecret ==
    registeredKey # 0 => registeredKey = installed.key

\* the awaits of generate_new_secret inside the rotation handler
RotationPoints == {"rot_submit", "rot_call"}

\* C32: a step of the rotation handler that does not complete a successful
\* generation (the key submission, the construction of the request, the call or
\* the parsing failed, or the handler is still waiting) leaves the engine's key,
\* seed and secret as they were; a judgment request is built from these fields
C32_FailedRotationKeepsEpoch ==
    /\ [][(pc \in RotationPoints /\ ~RotationSucceeded') =>
              CurrentEpoch' = CurrentEpoch]_vars
    /\ [](lastReq.kind = "guess" => lastReq = GuessRequest(CurrentEpoch))

\* a guess is judged after a rotation failed: the request carries the key, the seed
\* and the secret of bootstrap, not the key drawn by the rotation
C32_Witness ==
    /\ pc = "judge"
    /\ CurPos > 1
    /\ log[CurPos - 1].name = "RotateTdxQuoteEvent"
    /\ parse_event(log[CurPos - 1])
    /\ nextId = 5
    /\ lastReq = GuessRequest(Epoch(1, randomSeed, 2))
    /\ randomSeed \in BootSeeds

\* the events handle_event only logs
LogOnlyNames == {"PublishEvent", "TDXQuoteResubmittedEvent"}

\* the loop is at a Publish or TDXQuoteResubmitted event and this step handles it
LogOnlyDispatched ==
    /\ AtEvent
    /\ parse_event(CurEvent)
    /\ CurEvent.name \in LogOnlyNames
    /\ dispatched' = Append(dispatched, CurPos)

\* what handling changes: the loop index and the record of the handler, which has
\* made no call, no withdrawal and no key submission
LogOnlyFrame ==
    /\ CurrentEpoch' = CurrentEpoch
    /\ installed' = installed
    /\ cursor' = cursor
    /\ cursorFile' = cursorFile
    /\ registeredKey' = registeredKey
    /\ inflight' = inflight
    /\ lastReq' = lastReq
    /\ handler' = HandlerLog(CurPos)
    /\ pc' = "drain"
    /\ active' = active
    /\ idx' = idx + 1

\* C33: handling a Publish or a TDXQuoteResubmitted event leaves the secret, the
\* client key, the seed, the cursor and the cursor file unchanged, and makes no
\* confidential call and no ledger submission; the loop goes to the next event
C33_LogOnlyEvents == [][LogOnlyDispatched => LogOnlyFrame]_vars

C33_Witness ==
    /\ pc = "drain"
    /\ handler = HandlerLog(2)
    /\ log[1].name = "PublishEvent"
    /\ log[2].name = "TDXQuoteResubmittedEvent"
    /\ dispatched = <<1, 2>>
    /\ idx = 3
    /\ CurrentEpoch = installed
    /\ installed.key = 1
    /\ inflight = 0
    /\ registeredKey = 1

\* the hash check of verify_response_hash_and_signature let the response through
PassedHashCheck(out) ==
    out \notin {"none", "Response hash or signature is missing",
                "Response hash does not match computed response hash"}

\* C34: a decrypted response passes the hash check exactly when the hash the
\* server supplied is the BLAKE2b-256 digest of the plaintext bytes the decryption
\* returned
C34_HashOverPlaintext ==
    (pc = "integrity" /\ box.out # "none") =>
        (PassedHashCheck(box.out) <=> box.hash = blake2b_bytes(box.plaintext))

\* the key the request of the call was sealed with: derived from the caller's
\* private key, the node key of the call's own discovery and the call's salt
RequestKey == hkdf(chan.salt, diffie_hellman(chan.key, chan.entry.public_key))

\* C35: when the compute endpoint has answered a call, the envelope of the call was
\* sealed with RequestKey under the call's salt and nonce, and the answer opens
\* exactly when it was sealed with that same key under the nonce it carries
C35_ResponseOpenedWithRequestKey ==
    (chan.pc = "done" /\ chan.answer.wire = "ok") =>
        /\ chan.envelope.salt = chan.salt
        /\ chan.envelope.nonce = chan.nonce
        /\ chan.envelope.client_dh_public_key = PublicKey(chan.key)
        /\ chan.envelope.node_dh_public_key = chan.entry.public_key
        /\ chan.envelope.ciphertext.key = RequestKey
        /\ (chan.result # DecryptError) <=>
               /\ chan.answer.ciphertext.key = RequestKey
               /\ chan.answer.ciphertext.nonce = chan.answer.nonce

\* a call returned Ok on an answer that carries a nonce of its own
C35_Witness ==
    /\ chan.pc = "done"
    /\ chan.result = "ok"
    /\ chan.answer.nonce # chan.nonce
    /\ chan.answer.ciphertext.key = RequestKey
    /\ net.calls = 2

\* at most one admin handler at a time holds the guard of the shared client, and the
\* handlers that are building or awaiting the execution are the holders
HandlersExclusive ==
    pc = "admin" =>
        /\ Cardinality(Writing) <= 1
        /\ admin.holders = Writing

\* C36: at most one admin handler at a time is building, signing or executing a
\* transaction, and a handler holds the only guard of the shared client from before
\* its transaction is built until it has been executed: a transaction that is being
\* executed is that of the handler holding the guard
C36_AdminWritersExclusive ==
    /\ HandlersExclusive
    /\ pc = "admin" => admin.sent \subseteq admin.holders

\* the transaction of a dropped handler is with the ledger while a second handler
\* holds the guard and has sent its own
C36_TwoInFlight ==
    /\ pc = "admin"
    /\ admin.at[1] = "dropped"
    /\ admin.at[2] = "execute"
    /\ admin.sent = {1, 2}
    /\ admin.holders = {2}

\* the engine is in run() and inside no event handler
BetweenEvents == active = 0 /\ pc \in {"select", "fetching", "drain", "sleep"}

\* C37: whenever the engine is between events, the key last accepted by the ledger
\* is the key of the engine's client_private_key
C37_RegisteredKeyIsActiveKey ==
    BetweenEvents => registeredKey = clientKey

\* C38: every position up to the one the cursor file holds has been visited by the
\* for loop and its handler has returned: the file never holds the position of
\* the event being handled, nor of an event of the page still to be visited
C38_FileNeverAheadOfDispatch ==
    /\ \A p \in 1 .. cursorFile : \E j \in 1 .. Len(dispatched) : dispatched[j] = p
    /\ AtEvent => cursorFile < CurPos
    /\ active = 1 => cursorFile < handler.pos

\* while a page of two events is drained the cursor in memory is past both, and
\* the file still holds the position written after the page before
C38_Witness ==
    /\ pc = "judge"
    /\ handler.pos = 2
    /\ pageLen = 2
    /\ cursor = 3
    /\ cursorFile = 1
    /\ dispatched = <<1, 2>>

\* C39: a put of None leaves the file as it was, absent or with the position it
\* held, and a get after it returns what the file held before; in run() the call
\* with a None cursor returns Ok and leaves the file alone whatever the file system
\* would have answered
C39_AbsentCursorNotPersisted ==
    /\ (~store.put.some /\ store.phase = "written") =>
           store.file = store.before /\ ~store.crashed
    /\ (~store.put.some /\ store.phase = "read") =>
           store.file = store.before /\ store.got = read_cursor_text(store.before)
    /\ \A io \in IoOutcomes, file \in {FileNotFound, EmptyFile} \cup (1 .. MaxLog) :
           /\ write_cursor_to_toml_file(None, file, io) = file
           /\ write_cursor_result(None, io)
           /\ ~write_attempted(None)

\* None was put on a file that holds a position
C39_Witness ==
    /\ pc = "cursor"
    /\ store.phase = "written"
    /\ ~store.put.some
    /\ store.before = FileWith(toml_to_string(SomeCursor(2, 42)))
    /\ store.file = store.before

\* C40: run() ends with "shutdown" only on an observed value of true; and whenever
\* the engine is at its select! with no unseen value and no true value, the select!
\* waits for the page it asked for, so that later pages are fetched and drained
C40_OnlyTrueStops ==
    /\ (pc = "stopped" \/ exitReason = "shutdown") => shutdown
    /\ (pc = "select" /\ ~changed /\ ~shutdown) => ENABLED PollFetch

====
